---- MODULE Spec2Model ----
(***************************************************************************)
(* Test-management application: the UserStories view (manual creation,     *)
(* synchronization from the issue tracker and the work-item tracker,       *)
(* test-case generation), the generate-test-cases and generate-test-report *)
(* edge functions, and the rich-text unwrapping helper, over the           *)
(* relational store (user_stories, test_cases, ai_usage_logs).             *)
(***************************************************************************)
EXTENDS Integers, Sequences, FiniteSets, TLC

(***************************************************************************)
(* Bounds of the model.                                                    *)
(***************************************************************************)
\* user_stories rows ever created
MaxStories == 4
\* stories created with the Add Story form per view
MaxAdds == 2
\* synchronization runs started per view
MaxSyncs == 2
\* generation invocations started per view
MaxGens == 2
\* test cases in one report request
MaxReportCases == 4
\* nodes in one level of a rich-text document
MaxNodes == 2
\* the largest Microsoft.VSTS.Common.Priority of a work item
MaxPriority == 4
\* Excel imports started in one view
MaxImports == 2
\* rows of an imported sheet
MaxRows == 2
\* items a provider's tracker holds for the synchronized project
MaxTrackerItems == 60

(***************************************************************************)
(* Values.                                                                 *)
(***************************************************************************)
\* useState<string | null>(null): the null story id / project id
NULL == 0

\* v1 and v3 are two browser sessions of one user, v2 is another user's
Views == {"v1", "v2", "v3"}
\* the views whose controls are operated in the sequential specification
SeqViews == {"v1"}
\* the views that synchronize in the concurrent specification
RaceViews == {"v1", "v3"}

\* projectIds[0] of the view's user
FirstProject(v) == IF v = "v2" THEN 2 ELSE 1

\* String.prototype.toLowerCase on the strings of the model
ToLowerCase(s) ==
  CASE s = "A" -> "a"
    [] s = "B" -> "b"
    [] s = "High" -> "high"
    [] s = "Medium" -> "medium"
    [] s = "Low" -> "low"
    [] s = "Highest" -> "highest"
    [] s = "To Do" -> "to do"
    [] s = "In Progress" -> "in progress"
    [] s = "Done" -> "done"
    [] s = "Ready For Test" -> "ready for test"
    [] s = "Active" -> "active"
    [] s = "New" -> "new"
    [] OTHER -> s

\* String.prototype.replace(' ', '-'): the first blank only
ReplaceFirstBlank(s) ==
  CASE s = "to do" -> "to-do"
    [] s = "in progress" -> "in-progress"
    [] s = "ready for test" -> "ready-for test"
    [] s = "a " -> "a-"
    [] OTHER -> s

\* the text 'No description available', character by character
Placeholder ==
  <<"N","o"," ","d","e","s","c","r","i","p","t","i","o","n"," ",
    "a","v","a","i","l","a","b","l","e">>

(***************************************************************************)
(* extractTextFromJiraContent.  A JavaScript value is a record: k is its   *)
(* kind ("null", "str", "num", "obj"); s the characters of a string; n a   *)
(* number; for an object, type and text are its fields of those names (an  *)
(* empty text is a missing or empty one), isArr says its content field is  *)
(* an array and content lists that array.  A string is the sequence of its *)
(* characters.                                                             *)
(***************************************************************************)
JsNull == [k |-> "null", s |-> <<>>, n |-> 0, type |-> "", text |-> <<>>,
           isArr |-> FALSE, content |-> <<>>]
JsStr(str) == [JsNull EXCEPT !.k = "str", !.s = str]
JsNum(num) == [JsNull EXCEPT !.k = "num", !.n = num]
JsObj(type, text, isArr, content) ==
  [JsNull EXCEPT !.k = "obj", !.type = type, !.text = text,
                 !.isArr = isArr, !.content = content]

\* JavaScript truthiness of a value (the operand of `!content`)
Truthy(x) ==
  CASE x.k = "null" -> FALSE
    [] x.k = "str" -> x.s # <<>>
    [] x.k = "num" -> x.n # 0
    [] OTHER -> TRUE

RECURSIVE Join(_, _)
\* Array.prototype.join
Join(parts, sep) ==
  IF parts = <<>> THEN <<>>
  ELSE IF Len(parts) = 1 THEN parts[1]
  ELSE parts[1] \o sep \o Join(Tail(parts), sep)

RECURSIVE TrimStart(_)
TrimStart(str) ==
  IF str # <<>> /\ Head(str) = " " THEN TrimStart(Tail(str)) ELSE str

RECURSIVE TrimEnd(_)
TrimEnd(str) ==
  IF str # <<>> /\ str[Len(str)] = " "
  THEN TrimEnd(SubSeq(str, 1, Len(str) - 1)) ELSE str

\* String.prototype.trim
Trim(str) == TrimEnd(TrimStart(str))

RECURSIVE extractText(_)
RECURSIVE forEachExtractText(_)
\* the inner extractText: the texts it pushes onto textParts for one node,
\* in the order pushed
extractText(node) ==
  IF node.type = "text" /\ node.text # <<>> THEN <<node.text>>
  ELSE IF node.isArr THEN forEachExtractText(node.content)
  ELSE <<>>

\* nodes.forEach(extractText)
forEachExtractText(nodes) ==
  IF nodes = <<>> THEN <<>>
  ELSE extractText(Head(nodes)) \o forEachExtractText(Tail(nodes))

extractTextFromJiraContent(content) ==
  IF content.k = "str" THEN content.s
  ELSE IF ~Truthy(content) THEN Placeholder
  ELSE IF content.isArr THEN
    LET textParts == forEachExtractText(content.content)
        joined == Trim(Join(textParts, <<" ">>))
    IN IF joined # <<>> THEN joined ELSE Placeholder
  ELSE Placeholder

(***************************************************************************)
(* The inputs of extractTextFromJiraContent: documents of two levels below *)
(* the root, plain strings, null, numbers and objects without content.     *)
(***************************************************************************)
SeqsUpTo(S, n) == UNION {[1..m -> S] : m \in 0..n}

LeafNodes ==
  { JsObj("text", <<"x">>, FALSE, <<>>),
    JsObj("text", <<" ">>, FALSE, <<>>),
    JsObj("hardBreak", <<>>, FALSE, <<>>) }

InnerNodes ==
  LeafNodes \cup
  { JsObj("paragraph", <<>>, TRUE, c) : c \in SeqsUpTo(LeafNodes, MaxNodes) }

Documents ==
  { JsObj("doc", <<>>, TRUE, c) : c \in SeqsUpTo(InnerNodes, MaxNodes) }

ExtractInputs ==
  Documents \cup
  { JsNull, JsStr(<<>>), JsStr(<<"x">>), JsStr(<<" ", "x">>), JsNum(0), JsNum(1),
    JsObj("doc", <<>>, FALSE, <<>>), JsObj("text", <<"x">>, FALSE, <<>>) }

(***************************************************************************)
(* The generate-test-report edge function.                                 *)
(***************************************************************************)
\* Array.prototype.filter(...).length on a list of statuses
CountStatus(testCases, status) ==
  Cardinality({i \in DOMAIN testCases : testCases[i] = status})

\* ((passedTests / totalTests) * 100).toFixed(1), then parseFloat, in tenths
\* of a percent: the tenth nearest to the quotient, the larger of two equally
\* near ones.  (For the totals of the model the double arithmetic of the
\* code gives the same tenth.)
ToFixed1Tenths(passedTests, totalTests) ==
  (2000 * passedTests + totalTests) \div (2 * totalTests)

\* const passRate = totalTests > 0 ? (...).toFixed(1) : 0
PassRate(passedTests, totalTests) ==
  IF totalTests > 0 THEN ToFixed1Tenths(passedTests, totalTests) ELSE 0

\* the statistics block of the response
Statistics(testCases) ==
  LET totalTests == Len(testCases)
      passedTests == CountStatus(testCases, "passed")
  IN [ totalTests |-> totalTests,
       passedTests |-> passedTests,
       failedTests |-> CountStatus(testCases, "failed"),
       blockedTests |-> CountStatus(testCases, "blocked"),
       pendingTests |-> CountStatus(testCases, "pending"),
       passRate |-> PassRate(passedTests, totalTests) ]

NoStatistics ==
  [ totalTests |-> 0, passedTests |-> 0, failedTests |-> 0, blockedTests |-> 0,
    pendingTests |-> 0, passRate |-> 0 ]

ServerReportTypes == {"executive", "detailed", "summary"}

\* the limit on testCases.length
MaxReportTestCases == 200

ReportResponse(status, error, statistics, logged) ==
  [status |-> status, error |-> error, statistics |-> statistics, logged |-> logged]

\* serve of generate-test-report: the response to request req when the
\* token check, the completion call and the log insert end as authOk, llmOk
\* and logOk say; logged says a usage record was written
ServeReport(req, authOk, llmOk, logOk) ==
  IF ~authOk THEN ReportResponse(401, "Unauthorized", NoStatistics, FALSE)
  ELSE IF ~req.hasApiKey
    THEN ReportResponse(400, "OpenAI configuration is required", NoStatistics, FALSE)
  ELSE IF Len(req.testCases) = 0
    THEN ReportResponse(400, "Test cases array is required", NoStatistics, FALSE)
  ELSE IF ~req.hasProjectName
    THEN ReportResponse(400, "Project name is required", NoStatistics, FALSE)
  ELSE IF req.reportType # "" /\ req.reportType \notin ServerReportTypes
    THEN ReportResponse(400, "Report type must be one of", NoStatistics, FALSE)
  ELSE IF Len(req.testCases) > MaxReportTestCases
    THEN ReportResponse(400, "Maximum 200 test cases allowed", NoStatistics, FALSE)
  ELSE IF ~llmOk
    THEN ReportResponse(500, "Failed to generate test report", NoStatistics, FALSE)
  ELSE ReportResponse(200, "", Statistics(req.testCases), logOk)

\* the statuses a report request's test cases carry
ReportStatuses == {"not-run", "passed", "failed", "blocked", "pending"}

\* the values of the view's Report Type select
ViewReportTypes == {"executive", "detailed", "stakeholder", "technical"}

\* the report types of the requests: none, the view's options, the server's
ReportTypes == {""} \cup ViewReportTypes \cup ServerReportTypes

ReportRequests ==
  [ testCases : SeqsUpTo(ReportStatuses, MaxReportCases),
    hasApiKey : BOOLEAN,
    hasProjectName : BOOLEAN,
    reportType : ReportTypes ]

(***************************************************************************)
(* The relational store, the providers' feeds and the UserStories views.   *)
(***************************************************************************)
VARIABLES
  user_stories,         \* table user_stories: a set of rows
  test_cases,           \* table test_cases: a set of rows
  ai_usage_logs,        \* table ai_usage_logs: the rows in insertion order
  nextStoryId,          \* the id the store gives the next user_stories row
  nextTestCaseId,       \* the id the store gives the next test_cases row
  jiraFeed,             \* the issues the issue tracker returns for the project
  azureFeed,            \* the work items the work-item tracker returns
  session,              \* per view: the user is logged in (has an access token)
  currentProject,       \* per view: state currentProject
  savedConfigs,         \* per view: localStorage item 'integration-configs'
  stories,              \* per view: state stories, the local list
  isSyncing,            \* per view: state isSyncing
  generatingTestCases,  \* per view: state generatingTestCases
  toast,                \* per view: title of the last toast of the running handler
  sync,                 \* per view: the position and locals of syncFromIntegrations
  gen,                  \* per view: the position and locals of generateTestCases
  syncRuns,             \* per view: synchronization runs started
  genRuns,              \* per view: generation invocations started
  addRuns,              \* per view: stories created with the Add Story form
  lastSync,             \* per view: history of the last two sync runs finished
                        \* since another handler ran
  lastGen,              \* per view: history of the generation invocation that
                        \* ended since another handler ran
  del,                  \* per view: the position and locals of deleteUserStory
  lastDel,              \* per view: history of the deletion that ended since
                        \* another handler ran
  extractIn,            \* the argument given to extractTextFromJiraContent
  extractOut,           \* its result
  reportIn,             \* the request given to generate-test-report
  reportOut,            \* its response
  mapIn,                \* the work item given to the azure-devops-integration mapping
  imp,                  \* per view: the running Excel import
  impRuns,              \* per view: Excel imports started
  lastImp,              \* per view: history of the import that ended last
  mapOut,               \* the user story made of it
  promptIn,             \* what the user entered in a generation dialog
  promptOut,            \* the prompt and message generate-test-cases made of it
  pageIn,               \* a provider and the number of items its tracker holds
  pageOut               \* the number of stories the provider's function returns

storeVars == <<user_stories, test_cases, ai_usage_logs, nextStoryId, nextTestCaseId>>
feedVars == <<jiraFeed, azureFeed>>
viewVars == <<session, currentProject, savedConfigs, stories, isSyncing,
              generatingTestCases, toast>>
procVars == <<sync, gen, del, syncRuns, genRuns, addRuns, lastSync, lastGen,
              lastDel>>
pureVars == <<extractIn, extractOut, reportIn, reportOut, mapIn, mapOut,
              promptIn, promptOut>>
importVars == <<imp, impRuns, lastImp>>
pageVars == <<pageIn, pageOut>>
vars == <<storeVars, feedVars, viewVars, procVars, pureVars, importVars, pageVars>>

\* the projects the view's user can access, in the order the store lists
\* them: the owned project, then the projects the user is a member of (the
\* user of v3 is a member of project 2)
AccessibleProjects(v) ==
  IF v = "v3" THEN <<FirstProject(v), 2>> ELSE <<FirstProject(v)>>

\* the projectId prop of the view
SelectedProject(v) == FirstProject(v)

StoryRow(id, project, title, description, criteria, priority, status) ==
  [ id |-> id, project_id |-> project, title |-> title,
    description |-> description, acceptance_criteria |-> criteria,
    priority |-> priority, status |-> status ]

\* a row of test_cases; the store gives a row inserted without a readable_id
\* one of its own, different from every other
TestCaseRow(id, project, story, title, priority, status) ==
  [ id |-> id, project_id |-> project, user_story_id |-> story,
    title |-> title, priority |-> priority, status |-> status,
    readable_id |-> ToString(id) ]

\* the rows of a set in descending id order (.order('created_at',
\* { ascending: false }): ids are given in creation order)
RECURSIVE DescendingById(_)
DescendingById(rows) ==
  IF rows = {} THEN <<>>
  ELSE LET top == CHOOSE r \in rows : \A q \in rows : q.id <= r.id
       IN <<top>> \o DescendingById(rows \ {top})

\* the UserStory the view makes of a row, with its count of test cases
LocalStory(row, count) ==
  [ id |-> row.id, title |-> row.title, description |-> row.description,
    acceptanceCriteria |-> row.acceptance_criteria, priority |-> row.priority,
    status |-> row.status, testCasesGenerated |-> count ]

\* the list loadStoriesFromDatabase gives setStories
LoadedStories(v) ==
  LET projectIds == {AccessibleProjects(v)[i] : i \in DOMAIN AccessibleProjects(v)}
      dbStories == DescendingById({r \in user_stories : r.project_id \in projectIds})
      count(row) == Cardinality({t \in test_cases :
                                    /\ t.user_story_id = row.id
                                    /\ t.project_id = SelectedProject(v)})
  IN [i \in DOMAIN dbStories |-> LocalStory(dbStories[i], count(dbStories[i]))]

\* stories.find(s => s.id === storyId) finds a story
FindStory(list, storyId) ==
  list[CHOOSE i \in DOMAIN list :
         /\ list[i].id = storyId
         /\ \A j \in DOMAIN list : list[j].id = storyId => i <= j]

\* ids still free for user_stories rows
StoryRoom == MaxStories + 1 - nextStoryId

\* rows the running synchronizations may still insert
RECURSIVE SumOver(_, _)
SumOver(f, S) ==
  IF S = {} THEN 0
  ELSE LET x == CHOOSE y \in S : TRUE IN f[x] + SumOver(f, S \ {x})

Reserved == SumOver([v \in Views |-> sync[v].reserved], Views)

\* no handler of the view is between its start and its end
Idle(v) == sync[v].pc = "idle" /\ gen[v].pc = "idle" /\ del[v].pc = "idle"

(***************************************************************************)
(* loadStoriesFromDatabase, as the mount effect runs it                    *)
(***************************************************************************)
loadStoriesFromDatabase(v) ==
  \E loadOk \in BOOLEAN :
    /\ session[v]
    /\ IF loadOk
       THEN /\ stories' = [stories EXCEPT ![v] = LoadedStories(v)]
            /\ UNCHANGED toast
       ELSE /\ toast' = [toast EXCEPT ![v] = "Error: failed to load user stories"]
            /\ UNCHANGED stories
    /\ UNCHANGED <<storeVars, feedVars, session, currentProject, savedConfigs,
                   isSyncing, generatingTestCases, procVars, pureVars,
                   importVars, pageVars>>

(***************************************************************************)
(* handleAddStory                                                          *)
(***************************************************************************)
\* the titles and the priority typed into the Add Story form
FormTitles == {"", "a"}
FormPriority == "high"
FormDescription == <<"m">>

handleAddStory(v) ==
  \E title \in FormTitles, insertOk \in BOOLEAN :
    /\ StoryRoom - Reserved >= 1
    /\ addRuns[v] < MaxAdds
    /\ IF title = ""
       THEN /\ toast' = [toast EXCEPT ![v] = "Error: fill in title and description"]
            /\ UNCHANGED <<user_stories, nextStoryId, stories, addRuns>>
       ELSE IF ~session[v] \/ currentProject[v] = NULL
       THEN /\ toast' = [toast EXCEPT ![v] = "Error: not logged in"]
            /\ UNCHANGED <<user_stories, nextStoryId, stories, addRuns>>
       ELSE IF ~insertOk
       THEN /\ toast' = [toast EXCEPT ![v] = "Error: failed to create user story"]
            /\ UNCHANGED <<user_stories, nextStoryId, stories, addRuns>>
       ELSE LET row == StoryRow(nextStoryId, currentProject[v], title,
                                FormDescription, "", FormPriority, "draft")
            IN /\ user_stories' = user_stories \cup {row}
               /\ nextStoryId' = nextStoryId + 1
               /\ stories' = [stories EXCEPT ![v] = <<LocalStory(row, 0)>> \o @]
               /\ addRuns' = [addRuns EXCEPT ![v] = @ + 1]
               /\ toast' = [toast EXCEPT ![v] = "Success"]
    /\ lastSync' = [lastSync EXCEPT ![v] = <<>>]
    /\ lastGen' = [lastGen EXCEPT ![v] = <<>>]
    /\ lastDel' = [lastDel EXCEPT ![v] = <<>>]
    /\ UNCHANGED <<test_cases, ai_usage_logs, nextTestCaseId, feedVars, session,
                   currentProject, savedConfigs, isSyncing, generatingTestCases,
                   sync, gen, syncRuns, genRuns, del, pureVars, importVars, pageVars>>

(***************************************************************************)
(* The provider edge functions, as far as synchronization reads them.      *)
(***************************************************************************)
\* the text 'No description provided', character by character
NoDescriptionProvided ==
  <<"N","o"," ","d","e","s","c","r","i","p","t","i","o","n"," ",
    "p","r","o","v","i","d","e","d">>

\* x || fallback on strings ('' is falsy)
OrElse(x, fallback) == IF x = "" THEN fallback ELSE x

\* jira-integration: the user story made of one issue
JiraStory(issue) ==
  [ title |-> issue.summary,
    description |-> IF Truthy(issue.description) THEN issue.description
                    ELSE JsStr(NoDescriptionProvided),
    acceptanceCriteria |-> "",
    priority |-> OrElse(issue.priority, "Medium"),
    status |-> OrElse(issue.status, "To Do") ]

\* a mapping that knows no priority 3: C11 must not hold of it
AzureStoryWithoutLow(workItem) ==
  [ title |-> OrElse(workItem.title, "Untitled"),
    description |-> JsStr(workItem.description),
    acceptanceCriteria |-> workItem.acceptanceCriteria,
    priority |-> IF workItem.priority = 1 THEN "high" ELSE "medium",
    status |-> OrElse(ToLowerCase(workItem.state), "new") ]

\* azure-devops-integration: the user story made of one work item (priority
\* 0 stands for a missing Microsoft.VSTS.Common.Priority)
AzureStory(workItem) ==
  [ title |-> OrElse(workItem.title, "Untitled"),
    description |-> IF workItem.description # <<>> THEN JsStr(workItem.description)
                    ELSE JsStr(Placeholder),
    acceptanceCriteria |-> workItem.acceptanceCriteria,
    priority |-> IF workItem.priority # 0
                 THEN (IF workItem.priority = 1 THEN "high"
                       ELSE IF workItem.priority = 2 THEN "medium"
                       ELSE IF workItem.priority = 3 THEN "low" ELSE "medium")
                 ELSE "medium",
    status |-> OrElse(ToLowerCase(workItem.state), "new") ]

\* the stories array of a provider's success response
JiraStories(feed) == [i \in DOMAIN feed |-> JiraStory(feed[i])]
AzureStories(feed) == [i \in DOMAIN feed |-> AzureStory(feed[i])]

\* the fields syncFromIntegrations writes for a story fetched from Jira
JiraFields(story) ==
  [ description |-> extractTextFromJiraContent(story.description),
    acceptance_criteria |-> story.acceptanceCriteria,
    priority |-> OrElse(ToLowerCase(story.priority), "medium"),
    status |-> OrElse(ReplaceFirstBlank(ToLowerCase(story.status)), "draft") ]

\* the fields syncFromIntegrations writes for a story fetched from Azure DevOps
AzureFields(story) ==
  [ description |-> story.description.s,
    acceptance_criteria |-> story.acceptanceCriteria,
    priority |-> OrElse(story.priority, "medium"),
    status |-> OrElse(story.status, "draft") ]

\* the issues and work items of the feeds
Doc1 ==
  JsObj("doc", <<>>, TRUE,
        << JsObj("paragraph", <<>>, TRUE,
                 << JsObj("text", <<"x">>, FALSE, <<>>),
                    JsObj("text", <<"y">>, FALSE, <<>>) >>) >>)

Issue(summary) ==
  [summary |-> summary, description |-> Doc1, priority |-> "High",
   status |-> "In Progress"]

BareIssue(summary) ==
  [summary |-> summary, description |-> JsNull, priority |-> "", status |-> ""]

WorkItem(title) ==
  [title |-> title, description |-> <<"z">>, acceptanceCriteria |-> "ac",
   priority |-> 1, state |-> "Active"]

JiraFeeds ==
  { <<Issue("A")>>, <<Issue("a ")>>,
    <<Issue("a"), BareIssue("b")>>, <<Issue("b"), BareIssue("b")>>,
    <<Issue("a"), BareIssue("a")>> }

AzureFeeds == { <<WorkItem("a")>> }

(***************************************************************************)
(* syncFromIntegrations, one action per awaited call.                      *)
(***************************************************************************)
SyncIdle ==
  [ pc |-> "idle", items |-> <<>>, i |-> 0, existingStory |-> NULL,
    syncedCount |-> 0, reserved |-> 0, jira |-> "none", azure |-> "none",
    handled |-> 0, inserted |-> 0, clean |-> TRUE, startIds |-> {} ]

\* the outcomes of a fetch of a provider's edge function: the fetch throws,
\* the body is an error object, the body is no JSON, the body is a success
FetchOutcomes == {"network", "error", "html", "ok"}

ProjectIds(project) == {r.id : r \in {q \in user_stories : q.project_id = project}}

\* savedConfigs.jira?.enabled with url, email, apiToken and projectKey set;
\* savedConfigs['azure-devops']?.enabled with its three fields set
ProviderOn(configs, provider) == configs[provider] = "on"

\* the stories one run can fetch
Fetchable(v) ==
  (IF ProviderOn(savedConfigs[v], "jira") THEN Len(jiraFeed) ELSE 0)
  + (IF ProviderOn(savedConfigs[v], "azure") THEN Len(azureFeed) ELSE 0)

\* disabled={isSyncing} of the Sync from Integrations button
SyncDisabled(v) == isSyncing[v]

\* the click on Sync from Integrations, up to the first awaited call
syncFromIntegrations(v) ==
  /\ ~SyncDisabled(v)
  /\ syncRuns[v] < MaxSyncs
  /\ StoryRoom - Reserved >= Fetchable(v)
  /\ syncRuns' = [syncRuns EXCEPT ![v] = @ + 1]
  /\ lastDel' = [lastDel EXCEPT ![v] = <<>>]
  /\ IF ~session[v] \/ currentProject[v] = NULL
     THEN /\ toast' = [toast EXCEPT ![v] = "Error: no login or project"]
          /\ UNCHANGED <<isSyncing, sync>>
     ELSE /\ isSyncing' = [isSyncing EXCEPT ![v] = TRUE]
          /\ toast' = [toast EXCEPT ![v] = "none"]
          /\ sync' = [sync EXCEPT ![v] =
               [SyncIdle EXCEPT !.pc = "jira",
                                !.reserved = Fetchable(v),
                                !.startIds = ProjectIds(currentProject[v])]]
  /\ UNCHANGED <<storeVars, feedVars, session, currentProject, savedConfigs,
                 stories, generatingTestCases, gen, genRuns, addRuns, lastSync,
                 lastGen, del, pureVars, importVars, pageVars>>

\* the position after the loop over one provider's stories
AfterProvider(provider) == IF provider = "jira" THEN "azure" ELSE "finish"

\* an inner catch block that rethrows into the outer one: C8 must not hold
\* of it
AfterFailureRethrown(provider) == "catch"

\* the position after the inner catch block of one provider, which logs the
\* error (a thrown fetch, or a body response.json() cannot parse)
AfterFailure(provider) == AfterProvider(provider)

\* the fetch of one provider's edge function and the test of its response
SyncFetch(v, provider) ==
  \E outcome \in FetchOutcomes :
    LET fetched == IF provider = "jira" THEN JiraStories(jiraFeed)
                   ELSE AzureStories(azureFeed)
        result == IF ~ProviderOn(savedConfigs[v], provider) THEN "skipped"
                  ELSE IF outcome = "ok" THEN "fetched" ELSE "failed"
    IN /\ sync[v].pc = provider
       /\ ~ProviderOn(savedConfigs[v], provider) => outcome = "ok"
       /\ sync' = [sync EXCEPT ![v] =
            [@ EXCEPT ![provider] = result,
                      !.clean = @ /\ result # "failed",
                      !.items = IF result = "fetched" THEN fetched ELSE <<>>,
                      !.i = 1,
                      !.pc = IF result = "failed" /\ outcome # "error"
                             THEN AfterFailure(provider)
                             ELSE IF result = "fetched" /\ fetched # <<>>
                             THEN "lookup" ELSE AfterProvider(provider)]]
       /\ UNCHANGED <<storeVars, feedVars, viewVars, gen, syncRuns, genRuns,
                      addRuns, lastSync, lastGen, del, lastDel, pureVars, importVars, pageVars>>

\* the provider whose stories the loop is handling
Provider(v) == IF sync[v].azure = "none" THEN "jira" ELSE "azure"

\* .from('user_stories').select('id').eq('project_id', ..).eq('title', ..)
\* .single(): the row when exactly one matches, else no data
SingleStory(project, title, callOk) ==
  LET matches == {r \in user_stories : r.project_id = project /\ r.title = title}
  IN IF callOk /\ Cardinality(matches) = 1
     THEN (CHOOSE r \in matches : TRUE).id
     ELSE NULL

\* the lookup of an existing story for the fetched story at hand
SyncLookup(v) ==
  \E callOk \in BOOLEAN :
    /\ sync[v].pc = "lookup"
    /\ sync' = [sync EXCEPT ![v] =
         [@ EXCEPT !.existingStory =
                      SingleStory(currentProject[v], sync[v].items[sync[v].i].title,
                                  callOk),
                   !.clean = @ /\ callOk,
                   !.pc = "write"]]
    /\ UNCHANGED <<storeVars, feedVars, viewVars, gen, syncRuns, genRuns,
                   addRuns, lastSync, lastGen, del, lastDel, pureVars, importVars, pageVars>>

\* an update that selects by the title of the matched row instead of its
\* id: C14 must not hold of it
UpdatedStoriesByTitle(id, fields) ==
  { IF \E m \in user_stories : m.id = id /\ m.title = r.title
    THEN [r EXCEPT !.description = fields.description,
                   !.acceptance_criteria = fields.acceptance_criteria,
                   !.priority = fields.priority,
                   !.status = fields.status]
    ELSE r : r \in user_stories }

\* .update(fields).eq('id', id)
UpdatedStories(id, fields) ==
  { IF r.id = id
    THEN [r EXCEPT !.description = fields.description,
                   !.acceptance_criteria = fields.acceptance_criteria,
                   !.priority = fields.priority,
                   !.status = fields.status]
    ELSE r : r \in user_stories }

\* an insert that a unique (project_id, title) constraint would reject:
\* C17 must not hold of it
InsertedUnlessTitleTaken(project, title, fields) ==
  IF \E r \in user_stories : r.project_id = project /\ r.title = title
  THEN user_stories
  ELSE user_stories \cup
       { StoryRow(nextStoryId, project, title, fields.description,
                  fields.acceptance_criteria, fields.priority, fields.status) }

\* .insert({project_id, title, ...fields})
InsertedStories(project, title, fields) ==
  user_stories \cup
  { StoryRow(nextStoryId, project, title, fields.description,
             fields.acceptance_criteria, fields.priority, fields.status) }

\* the update or insert for the fetched story at hand, and the step to the
\* next story
SyncWrite(v) ==
  \E callOk \in BOOLEAN :
    LET story == sync[v].items[sync[v].i]
        fields == IF Provider(v) = "jira" THEN JiraFields(story)
                  ELSE AzureFields(story)
        existing == sync[v].existingStory
        last == sync[v].i = Len(sync[v].items)
    IN /\ sync[v].pc = "write"
       /\ IF ~callOk
          THEN UNCHANGED <<user_stories, nextStoryId>>
          ELSE IF existing # NULL
          THEN /\ user_stories' = UpdatedStories(existing, fields)
               /\ UNCHANGED nextStoryId
          ELSE /\ user_stories' =
                    InsertedStories(currentProject[v], story.title, fields)
               /\ nextStoryId' = nextStoryId + 1
       /\ sync' = [sync EXCEPT ![v] =
            [@ EXCEPT !.syncedCount = IF callOk THEN @ + 1 ELSE @,
                      !.inserted = IF callOk /\ existing = NULL THEN @ + 1 ELSE @,
                      !.clean = @ /\ callOk,
                      !.handled = @ + 1,
                      !.i = @ + 1,
                      !.existingStory = NULL,
                      !.pc = IF last THEN AfterProvider(Provider(v)) ELSE "lookup"]]
       /\ UNCHANGED <<test_cases, ai_usage_logs, nextTestCaseId, feedVars, viewVars,
                      gen, syncRuns, genRuns, addRuns, lastSync, lastGen,
                      del, lastDel, pureVars, importVars, pageVars>>

\* what a finished run leaves in the history
SyncSummary(v, toastTitle) ==
  [ toast |-> toastTitle,
    handled |-> sync[v].handled,
    startIds |-> sync[v].startIds,
    endIds |-> ProjectIds(currentProject[v]),
    inserted |-> sync[v].inserted,
    syncedCount |-> sync[v].syncedCount,
    clean |-> sync[v].clean,
    jira |-> sync[v].jira,
    azure |-> sync[v].azure ]

\* the end of the run: the toast, the reload of the list, the finally block
SyncFinish(v) ==
  \E loadOk \in BOOLEAN :
    LET reloads == sync[v].pc = "finish" /\ sync[v].syncedCount > 0
        toastTitle == IF sync[v].pc = "catch" THEN "Sync Failed"
                      ELSE IF ~reloads THEN "No Changes"
                      ELSE IF loadOk THEN "Sync Complete"
                      ELSE "Error: failed to load user stories"
    IN
    /\ sync[v].pc \in {"finish", "catch"}
    /\ ~reloads => loadOk
    /\ stories' = [stories EXCEPT ![v] =
                     IF reloads /\ loadOk THEN LoadedStories(v) ELSE @]
    /\ toast' = [toast EXCEPT ![v] = toastTitle]
    /\ isSyncing' = [isSyncing EXCEPT ![v] = FALSE]
    /\ lastSync' = [lastSync EXCEPT ![v] =
         IF @ = <<>> THEN <<SyncSummary(v, toastTitle)>>
         ELSE <<@[Len(@)], SyncSummary(v, toastTitle)>>]
    /\ sync' = [sync EXCEPT ![v] = SyncIdle]
    /\ UNCHANGED <<storeVars, feedVars, session, currentProject, savedConfigs,
                   generatingTestCases, gen, syncRuns, genRuns, addRuns, lastGen,
                   del, lastDel, pureVars, importVars, pageVars>>

(***************************************************************************)
(* The generate-test-cases edge function.                                  *)
(***************************************************************************)
\* a test-case object of the completion's JSON array ("" is a missing field)
T1 == [title |-> "t1", name |-> "", priority |-> "High"]
T2 == [title |-> "", name |-> "n2", priority |-> ""]

\* what the completion endpoint answers: the call throws, the status is no
\* success, or the message content is text that is no JSON, JSON that is no
\* array, or a JSON array of test-case objects
Completion(kind, json, items) == [kind |-> kind, json |-> json, items |-> items]

Completions ==
  { Completion("throw", "", <<>>),
    Completion("status", "", <<>>),
    Completion("ok", "invalid", <<>>),
    Completion("ok", "object", <<>>),
    Completion("ok", "array", <<>>),
    Completion("ok", "array", <<T1>>),
    Completion("ok", "array", <<T1, T2>>) }

UsageRecord(feature, success) == [feature_type |-> feature, success |-> success]

GenerateResponse(status, success, testCases, error, raw, logs) ==
  [ status |-> status, success |-> success, testCases |-> testCases,
    error |-> error, rawContent |-> raw, logs |-> logs ]

\* azureConfig && azureConfig.endpoint && azureConfig.apiKey &&
\* azureConfig.deploymentId, on the set of the request's configuration fields
ConfigValid(azureConfig) ==
  {"endpoint", "apiKey", "deploymentId"} \subseteq azureConfig

\* a parse that takes any JSON value for an array: C5 must not hold of it
ParsesAnyJson(completion) == completion.json \in {"array", "object"}

\* JSON.parse(content) followed by testCases.map(...): both succeed exactly
\* when the content is a JSON array
ParsesToArray(completion) == completion.json = "array"

\* serve of generate-test-cases: the response to request req when the token
\* check ends as authOk says, the completion endpoint answers completion and
\* the inserts into ai_usage_logs end as logOk says; logs are the usage
\* records written
ServeGenerate(req, authOk, completion, logOk) ==
  LET logged(success) ==
        IF logOk THEN <<UsageRecord("test_case_generation", success)>> ELSE <<>>
  IN IF ~authOk
       THEN GenerateResponse(401, FALSE, <<>>, "Unauthorized", "", <<>>)
     ELSE IF req.story.title = ""
       THEN GenerateResponse(400, FALSE, <<>>, "Story data with title is required",
                             "", <<>>)
     ELSE IF ~ConfigValid(req.azureConfig)
       THEN GenerateResponse(400, FALSE, <<>>,
                             "Azure OpenAI configuration is required", "", <<>>)
     ELSE IF completion.kind = "throw"
       THEN GenerateResponse(500, FALSE, <<>>, "Failed to generate test cases",
                             "", <<>>)
     ELSE IF completion.kind = "status"
       THEN GenerateResponse(429, FALSE, <<>>, "Azure OpenAI API error", "", <<>>)
     ELSE IF ParsesToArray(completion)
       THEN GenerateResponse(200, TRUE, completion.items, "", "", logged(TRUE))
     ELSE GenerateResponse(500, FALSE, <<>>, "Failed to parse generated test cases",
                           completion.json, logged(TRUE) \o logged(FALSE))

(***************************************************************************)
(* generateTestCases, one action per awaited call.                         *)
(***************************************************************************)
NoStory == LocalStory(StoryRow(NULL, NULL, "", <<>>, "", "", ""), 0)

GenIdle ==
  [ pc |-> "idle", storyId |-> NULL, story |-> NoStory, stories |-> <<>>,
    testCases |-> <<>>, startCases |-> {}, startStatus |-> "",
    deleted |-> FALSE, insertCall |-> "none", insertedIds |-> {},
    requested |-> FALSE, completion |-> "none", json |-> "",
    error |-> "", rawContent |-> "" ]

\* the ids of the test cases stored for a (project, story) pair
CasesOf(project, storyId) ==
  {t.id : t \in {q \in test_cases :
                   q.project_id = project /\ q.user_story_id = storyId}}

\* the stored status of a story ("" when the row is gone)
StatusOf(storyId) ==
  IF \E r \in user_stories : r.id = storyId
  THEN (CHOOSE r \in user_stories : r.id = storyId).status
  ELSE ""

\* what an ended invocation leaves in the history
GenSummary(v, g, outcome, toastTitle, cases, storiesNow) ==
  [ storyId |-> g.storyId, project |-> currentProject[v], outcome |-> outcome,
    stage |-> g.pc, toast |-> toastTitle, requested |-> g.requested,
    completion |-> g.completion, json |-> g.json,
    error |-> g.error, rawContent |-> g.rawContent,
    deleted |-> g.deleted, insertCall |-> g.insertCall,
    insertedIds |-> g.insertedIds,
    startCases |-> g.startCases, startStatus |-> g.startStatus,
    endCases |-> {t.id : t \in {q \in cases :
                    q.project_id = currentProject[v] /\ q.user_story_id = g.storyId}},
    endStatus |-> IF \E r \in storiesNow : r.id = g.storyId
                  THEN (CHOOSE r \in storiesNow : r.id = g.storyId).status
                  ELSE "" ]

\* a test that forgets the deployment id: C6 must not hold of it
ConfigCompleteWithoutDeployment(configs) ==
  /\ "endpoint" \in configs.openai
  /\ "apiKey" \in configs.openai

\* azureConfig?.endpoint && azureConfig?.apiKey && azureConfig?.deploymentId
\* (openai is the set of the fields the saved configuration has)
ConfigComplete(configs) ==
  /\ "endpoint" \in configs.openai
  /\ "apiKey" \in configs.openai
  /\ "deploymentId" \in configs.openai

\* confirm buttons that are never disabled: C16 must not hold of them
GenerateDisabledNever(v) == FALSE

\* disabled={generatingTestCases !== null} of the dialogs' confirm buttons
GenerateDisabled(v) == generatingTestCases[v] # NULL

\* the confirm click of a generation dialog, up to the first awaited call
generateTestCases(v) ==
  \E i \in DOMAIN stories[v] :
    LET storyId == stories[v][i].id
        started == [GenIdle EXCEPT !.storyId = storyId,
                                   !.story = FindStory(stories[v], storyId),
                                   !.stories = stories[v],
                                   !.startCases = CasesOf(currentProject[v], storyId),
                                   !.startStatus = StatusOf(storyId)]
    IN /\ ~GenerateDisabled(v)
       /\ genRuns[v] < MaxGens
       /\ genRuns' = [genRuns EXCEPT ![v] = @ + 1]
       /\ lastDel' = [lastDel EXCEPT ![v] = <<>>]
       /\ IF ~session[v]
          THEN /\ toast' = [toast EXCEPT ![v] = "Authentication Error"]
               /\ lastGen' = [lastGen EXCEPT ![v] =
                    <<GenSummary(v, started, "rejected", "Authentication Error",
                                 test_cases, user_stories)>>]
               /\ UNCHANGED <<generatingTestCases, gen>>
          ELSE IF ~ConfigComplete(savedConfigs[v])
          THEN /\ toast' = [toast EXCEPT ![v] = "Azure OpenAI Not Configured"]
               /\ lastGen' = [lastGen EXCEPT ![v] =
                    <<GenSummary(v, started, "rejected", "Azure OpenAI Not Configured",
                                 test_cases, user_stories)>>]
               /\ UNCHANGED <<generatingTestCases, gen>>
          ELSE /\ generatingTestCases' = [generatingTestCases EXCEPT ![v] = storyId]
               /\ toast' = [toast EXCEPT ![v] = "none"]
               /\ gen' = [gen EXCEPT ![v] = [started EXCEPT !.pc = "fetch"]]
               /\ lastGen' = [lastGen EXCEPT ![v] = <<>>]
       /\ UNCHANGED <<storeVars, feedVars, session, currentProject, savedConfigs,
                      stories, isSyncing, sync, syncRuns, addRuns, lastSync,
                      del, pureVars, importVars, pageVars>>

\* an end that clears the flag after the try block only, not in a finally
\* block: C30 must not hold of it
GenEndWithoutFinally(v, g, outcome, toastTitle, cases, storiesNow) ==
  /\ toast' = [toast EXCEPT ![v] = toastTitle]
  /\ generatingTestCases' = [generatingTestCases EXCEPT ![v] =
       IF outcome = "failed" THEN @ ELSE NULL]
  /\ lastGen' = [lastGen EXCEPT ![v] =
       <<GenSummary(v, g, outcome, toastTitle, cases, storiesNow)>>]
  /\ gen' = [gen EXCEPT ![v] = GenIdle]

\* the end of an invocation: the catch block's toast when it failed, and the
\* finally block
GenEnd(v, g, outcome, toastTitle, cases, storiesNow) ==
  /\ toast' = [toast EXCEPT ![v] = toastTitle]
  /\ generatingTestCases' = [generatingTestCases EXCEPT ![v] = NULL]
  /\ lastGen' = [lastGen EXCEPT ![v] =
       <<GenSummary(v, g, outcome, toastTitle, cases, storiesNow)>>]
  /\ gen' = [gen EXCEPT ![v] = GenIdle]

\* the request body generateTestCases sends
GenerateRequest(v) ==
  [ story |-> [ id |-> gen[v].story.id, project_id |-> currentProject[v],
                title |-> gen[v].story.title ],
    azureConfig |-> savedConfigs[v].openai ]

\* the fetch of the edge function and the test of data.success
GenFetch(v) ==
  \E fetchOk \in BOOLEAN, authOk \in BOOLEAN, completion \in Completions,
     logOk \in BOOLEAN :
    LET data == ServeGenerate(GenerateRequest(v), authOk, completion, logOk)
        called == authOk /\ data.status \notin {400, 401}
        g == IF fetchOk
             THEN [gen[v] EXCEPT !.requested = called,
                                 !.completion = IF called THEN completion.kind
                                                ELSE "none",
                                 !.json = IF called THEN completion.json ELSE "",
                                 !.error = data.error,
                                 !.rawContent = data.rawContent]
             ELSE gen[v]
    IN /\ gen[v].pc = "fetch"
       /\ ~fetchOk => authOk /\ logOk /\ completion = Completion("throw", "", <<>>)
       /\ ~authOk => logOk /\ completion = Completion("throw", "", <<>>)
       /\ completion.kind # "ok" => logOk
       /\ IF ~fetchOk
          THEN /\ GenEnd(v, g, "failed", "Generation Failed", test_cases, user_stories)
               /\ UNCHANGED ai_usage_logs
          ELSE /\ ai_usage_logs' = ai_usage_logs \o data.logs
               /\ IF data.success
                  THEN IF currentProject[v] = NULL
                       THEN GenEnd(v, g, "failed", "Generation Failed",
                                   test_cases, user_stories)
                       ELSE /\ gen' = [gen EXCEPT ![v] =
                                 [g EXCEPT !.pc = "delete",
                                           !.testCases = data.testCases]]
                            /\ UNCHANGED <<toast, generatingTestCases, lastGen>>
                  ELSE GenEnd(v, g, "silent", "none", test_cases, user_stories)
       /\ UNCHANGED <<user_stories, test_cases, nextStoryId, nextTestCaseId, feedVars,
                      session, currentProject, savedConfigs, stories, isSyncing,
                      sync, syncRuns, genRuns, addRuns, lastSync, del, lastDel, pureVars, importVars, pageVars>>

\* a delete that forgets the user_story_id filter: C24 must not hold of it
DeletedCasesOfProject(storyId, project) ==
  {t \in test_cases : t.project_id # project}

\* .from('test_cases').delete().eq('user_story_id', ..).eq('project_id', ..)
DeletedCases(storyId, project) ==
  {t \in test_cases : ~(t.user_story_id = storyId /\ t.project_id = project)}

\* the delete of the story's stored test cases; its result is not read
GenDelete(v) ==
  \E callOk \in BOOLEAN :
    /\ gen[v].pc = "delete"
    /\ test_cases' = IF callOk THEN DeletedCases(gen[v].storyId, currentProject[v])
                     ELSE test_cases
    /\ gen' = [gen EXCEPT ![v] = [@ EXCEPT !.deleted = callOk, !.pc = "insert"]]
    /\ UNCHANGED <<user_stories, ai_usage_logs, nextStoryId, nextTestCaseId, feedVars,
                   viewVars, sync, syncRuns, genRuns, addRuns, lastSync, lastGen,
                   del, lastDel, pureVars, importVars, pageVars>>

\* the status every generated row is given
GeneratedStatus == "draft"

\* testCasesToInsert: the row made of the i-th generated test case
CaseToInsert(v, i) ==
  LET testCase == gen[v].testCases[i]
  IN TestCaseRow(nextTestCaseId + i - 1, currentProject[v], gen[v].storyId,
                 OrElse(OrElse(testCase.title, testCase.name), "Test Case"),
                 ToLowerCase(OrElse(testCase.priority, "medium")),
                 GeneratedStatus)

\* an insert whose error is not read: C7 must not hold of it
AfterInsertUnchecked(insertOk) == "update"

\* what follows the bulk insert: the status update, or the throw of
\* insertError into the catch block
AfterInsert(insertOk) == IF insertOk THEN "update" ELSE "catch"

\* the bulk insert of the generated test cases (the store refuses a row
\* whose user_story_id names no user_stories row)
GenInsert(v) ==
  \E callOk \in BOOLEAN :
    LET rows == {CaseToInsert(v, i) : i \in DOMAIN gen[v].testCases}
        g == [gen[v] EXCEPT !.insertCall = IF callOk THEN "ok" ELSE "failed",
                            !.insertedIds = IF callOk THEN {t.id : t \in rows}
                                            ELSE {}]
        cases == IF callOk THEN test_cases \cup rows ELSE test_cases
    IN /\ gen[v].pc = "insert"
       /\ callOk => \E r \in user_stories : r.id = gen[v].storyId
       /\ test_cases' = cases
       /\ nextTestCaseId' = IF callOk THEN nextTestCaseId + Len(gen[v].testCases)
                            ELSE nextTestCaseId
       /\ IF AfterInsert(callOk) = "catch"
          THEN GenEnd(v, g, "failed", "Generation Failed", cases, user_stories)
          ELSE /\ gen' = [gen EXCEPT ![v] = [g EXCEPT !.pc = "update"]]
               /\ UNCHANGED <<toast, generatingTestCases, lastGen>>
       /\ UNCHANGED <<user_stories, ai_usage_logs, nextStoryId, feedVars, session,
                      currentProject, savedConfigs, stories, isSyncing, sync,
                      syncRuns, genRuns, addRuns, lastSync, del, lastDel, pureVars, importVars, pageVars>>

\* .from('user_stories').update({ status: 'completed' }).eq('id', ..)
\* .eq('project_id', ..)
CompletedStories(storyId, project) ==
  { IF r.id = storyId /\ r.project_id = project
    THEN [r EXCEPT !.status = "completed"] ELSE r : r \in user_stories }

\* updatedStories: the captured list with the generated story's count and
\* status replaced
UpdatedLocalStories(list, storyId, count) ==
  [i \in DOMAIN list |->
     IF list[i].id = storyId
     THEN [list[i] EXCEPT !.testCasesGenerated = count, !.status = "completed"]
     ELSE list[i]]

\* the update of the story's status (its result is not read), setStories,
\* the success toast and the finally block
GenUpdate(v) ==
  \E callOk \in BOOLEAN :
    LET updated == IF callOk
                   THEN CompletedStories(gen[v].storyId, currentProject[v])
                   ELSE user_stories
    IN /\ gen[v].pc = "update"
       /\ user_stories' = updated
       /\ stories' = [stories EXCEPT ![v] =
            UpdatedLocalStories(gen[v].stories, gen[v].storyId,
                                Len(gen[v].testCases))]
       /\ GenEnd(v, gen[v], "success", "Test Cases Generated & Saved",
                 test_cases, updated)
       /\ UNCHANGED <<test_cases, ai_usage_logs, nextStoryId, nextTestCaseId,
                      feedVars, session, currentProject, savedConfigs, isSyncing,
                      sync, syncRuns, genRuns, addRuns, lastSync, del, lastDel, pureVars, importVars, pageVars>>

(***************************************************************************)
(* deleteUserStory, one action per awaited call.                           *)
(***************************************************************************)
DelIdle == [pc |-> "idle", storyId |-> NULL, hadCases |-> FALSE, casesCall |-> "none"]

\* the click on a story's delete button, up to the first awaited call
deleteUserStory(v) ==
  \E i \in DOMAIN stories[v] :
    /\ del[v].pc = "idle"
    /\ del' = [del EXCEPT ![v] =
         [DelIdle EXCEPT !.pc = "cases", !.storyId = stories[v][i].id,
                         !.hadCases = \E t \in test_cases :
                                         t.user_story_id = stories[v][i].id]]
    /\ toast' = [toast EXCEPT ![v] = "none"]
    /\ lastSync' = [lastSync EXCEPT ![v] = <<>>]
    /\ lastGen' = [lastGen EXCEPT ![v] = <<>>]
    /\ lastDel' = [lastDel EXCEPT ![v] = <<>>]
    /\ UNCHANGED <<storeVars, feedVars, session, currentProject, savedConfigs,
                   stories, isSyncing, generatingTestCases, sync, gen, syncRuns,
                   genRuns, addRuns, pureVars, importVars, pageVars>>

\* what an ended deletion leaves in the history
DelSummary(d, outcome, toastTitle) ==
  [ storyId |-> d.storyId, hadCases |-> d.hadCases, casesCall |-> d.casesCall,
    outcome |-> outcome, toast |-> toastTitle ]

\* the end of a deletion: the toast and the return
DelEnd(v, d, outcome, toastTitle) ==
  /\ toast' = [toast EXCEPT ![v] = toastTitle]
  /\ lastDel' = [lastDel EXCEPT ![v] = <<DelSummary(d, outcome, toastTitle)>>]
  /\ del' = [del EXCEPT ![v] = DelIdle]

\* .from('test_cases').delete().eq('user_story_id', storyId)
CasesWithoutStory(storyId) == {t \in test_cases : t.user_story_id # storyId}

\* a delete of the test cases whose error is not read: C12 must not hold of it
AfterCasesDeleteUnchecked(deleteOk) == "story"

\* what follows the delete of the test cases: the delete of the story, or the
\* throw of testCasesError into the catch block
AfterCasesDelete(deleteOk) == IF deleteOk THEN "story" ELSE "catch"

\* the delete of the story's test cases
DelCases(v) ==
  \E callOk \in BOOLEAN :
    LET d == [del[v] EXCEPT !.casesCall = IF callOk THEN "ok" ELSE "failed"]
    IN /\ del[v].pc = "cases"
       /\ test_cases' = IF callOk THEN CasesWithoutStory(del[v].storyId)
                        ELSE test_cases
       /\ IF AfterCasesDelete(callOk) = "catch"
          THEN DelEnd(v, d, "failed", "Delete Failed")
          ELSE /\ del' = [del EXCEPT ![v] = [d EXCEPT !.pc = "story"]]
               /\ UNCHANGED <<toast, lastDel>>
       /\ UNCHANGED <<user_stories, ai_usage_logs, nextStoryId, nextTestCaseId,
                      feedVars, session, currentProject, savedConfigs, stories,
                      isSyncing, generatingTestCases, sync, gen, syncRuns, genRuns,
                      addRuns, lastSync, lastGen, pureVars, importVars, pageVars>>

\* .from('user_stories').delete().eq('id', storyId)
StoriesWithout(storyId) == {r \in user_stories : r.id # storyId}

\* setStories(prev => prev.filter(story => story.id !== storyId))
FilteredStories(list, storyId) ==
  LET Keep(story) == story.id # storyId IN SelectSeq(list, Keep)

\* the delete of the story row (the store refuses it while a test case names
\* the story), the local list and the toast
DelStory(v) ==
  \E callOk \in BOOLEAN :
    /\ del[v].pc = "story"
    /\ callOk => \A t \in test_cases : t.user_story_id # del[v].storyId
    /\ IF callOk
       THEN /\ user_stories' = StoriesWithout(del[v].storyId)
            /\ stories' = [stories EXCEPT ![v] = FilteredStories(@, del[v].storyId)]
            /\ DelEnd(v, del[v], "success", "User Story Deleted")
       ELSE /\ DelEnd(v, del[v], "failed", "Delete Failed")
            /\ UNCHANGED <<user_stories, stories>>
    /\ UNCHANGED <<test_cases, ai_usage_logs, nextStoryId, nextTestCaseId, feedVars,
                   session, currentProject, savedConfigs, isSyncing,
                   generatingTestCases, sync, gen, syncRuns, genRuns, addRuns,
                   lastSync, lastGen, pureVars, importVars, pageVars>>

(***************************************************************************)
(* handleFileUpload of the test-case view, one action per awaited call.    *)
(***************************************************************************)
\* a row of the sheet; "" stands for an empty cell
SheetRow(testId, title, userStoryTitle) ==
  [testId |-> testId, title |-> title, userStoryTitle |-> userStoryTitle]

SheetRows ==
  { SheetRow("", "t", "A"), SheetRow("X", "t", "A"), SheetRow("X", "u", "a"),
    SheetRow("X", "t", "q"), SheetRow("", "", "A"), SheetRow("", "t", "") }

\* the sheets XLSX.utils.sheet_to_json can give
Sheets == SeqsUpTo(SheetRows, MaxRows)

ImpIdle ==
  [ pc |-> "idle", rows |-> <<>>, i |-> 0, userStories |-> {},
    toInsert |-> <<>>, updatedCount |-> 0, missingStories |-> {},
    clean |-> TRUE, startCases |-> {} ]

\* no import of any view is between its start and its end
Quiet == \A v \in Views : imp[v].pc = "idle"

\* a validation that finds no error: C28 must not hold of it
RowErrorsNone(rows) == {}

\* the rows with an error: no title, or no user story title
RowErrors(rows) ==
  {i \in DOMAIN rows : rows[i].title = "" \/ rows[i].userStoryTitle = ""}

\* userStories?.find(story => story.title.toLowerCase() ===
\* testCase.userStoryTitle.toLowerCase()), the rows in insertion order
MatchingStory(userStories, userStoryTitle) ==
  LET found == {s \in userStories :
                  ToLowerCase(s.title) = ToLowerCase(userStoryTitle)}
  IN IF found = {} THEN NULL
     ELSE (CHOOSE s \in found : \A q \in found : s.id <= q.id).id

\* testCaseData of a row, with the readable_id to insert it with ("" when
\* the store is to give one)
TestCaseData(row, storyId, readableId) ==
  [ title |-> row.title, priority |-> "medium", status |-> "not-run",
    user_story_id |-> storyId, readable_id |-> readableId ]

RECURSIVE ImportLoop(_)
\* the loop over validTestCases from row m.i on, up to the next awaited call
ImportLoop(m) ==
  IF m.i > Len(m.rows)
  THEN [m EXCEPT !.pc = IF m.toInsert # <<>> THEN "insert" ELSE "finish"]
  ELSE LET row == m.rows[m.i]
           storyId == MatchingStory(m.userStories, row.userStoryTitle)
       IN IF storyId = NULL
          THEN ImportLoop([m EXCEPT !.missingStories = @ \cup {row.userStoryTitle},
                                    !.i = @ + 1])
          ELSE IF row.testId = ""
          THEN ImportLoop([m EXCEPT !.toInsert =
                                      Append(@, TestCaseData(row, storyId, "")),
                                    !.i = @ + 1])
          ELSE [m EXCEPT !.pc = "lookup"]

\* what an ended import leaves in the history
ImpSummary(v, m, outcome, toastTitle, cases) ==
  [ rows |-> m.rows, project |-> SelectedProject(v), outcome |-> outcome,
    toast |-> toastTitle, clean |-> m.clean,
    stories |-> {r \in user_stories : r.project_id = SelectedProject(v)},
    startCases |-> m.startCases, endCases |-> cases ]

\* the end of an import: the toast, the finally block
ImpEnd(v, m, outcome, toastTitle, cases) ==
  /\ toast' = [toast EXCEPT ![v] = toastTitle]
  /\ lastImp' = [lastImp EXCEPT ![v] = <<ImpSummary(v, m, outcome, toastTitle, cases)>>]
  /\ imp' = [imp EXCEPT ![v] = ImpIdle]

\* the choice of a file in the import control, up to the first awaited call;
\* the control is disabled while an import of the view is loading
handleFileUpload(v) ==
  \E rows \in Sheets, excel \in BOOLEAN :
    LET m == [ImpIdle EXCEPT !.rows = rows, !.startCases = test_cases]
    IN /\ imp[v].pc = "idle"
       /\ impRuns[v] < MaxImports
       /\ impRuns' = [impRuns EXCEPT ![v] = @ + 1]
       /\ IF ~excel
          THEN ImpEnd(v, m, "rejected", "Invalid File", test_cases)
          ELSE /\ imp' = [imp EXCEPT ![v] = [m EXCEPT !.pc = "read"]]
               /\ lastImp' = [lastImp EXCEPT ![v] = <<>>]
               /\ UNCHANGED toast
       /\ UNCHANGED <<storeVars, feedVars, session, currentProject, savedConfigs,
                      stories, isSyncing, generatingTestCases, procVars, pageVars, pureVars>>

\* file.arrayBuffer(), then the validation of the rows
ImportRead(v) ==
  \E readOk \in BOOLEAN :
    LET m == [imp[v] EXCEPT !.clean = @ /\ readOk]
    IN /\ imp[v].pc = "read"
       /\ IF ~readOk
          THEN ImpEnd(v, m, "failed", "Import Failed", test_cases)
          ELSE IF m.rows = <<>>
          THEN ImpEnd(v, m, "rejected", "Empty File", test_cases)
          ELSE IF RowErrors(m.rows) # {}
          THEN ImpEnd(v, m, "rejected", "Import Errors", test_cases)
          ELSE /\ imp' = [imp EXCEPT ![v] = [m EXCEPT !.pc = "stories"]]
               /\ UNCHANGED <<toast, lastImp>>
       /\ UNCHANGED <<storeVars, feedVars, session, currentProject, savedConfigs,
                      stories, isSyncing, generatingTestCases, procVars, pageVars, pureVars,
                      impRuns>>

\* .from('user_stories').select('id, title').eq('project_id', projectId),
\* then the loop up to its first lookup
ImportStories(v) ==
  \E callOk \in BOOLEAN :
    LET m == [imp[v] EXCEPT !.clean = @ /\ callOk,
                            !.i = 1,
                            !.userStories =
                               {r \in user_stories :
                                  r.project_id = SelectedProject(v)}]
    IN /\ imp[v].pc = "stories"
       /\ IF ~callOk
          THEN ImpEnd(v, [m EXCEPT !.userStories = {}], "failed", "Import Failed",
                      test_cases)
          ELSE /\ imp' = [imp EXCEPT ![v] = ImportLoop(m)]
               /\ UNCHANGED <<toast, lastImp>>
       /\ UNCHANGED <<storeVars, feedVars, session, currentProject, savedConfigs,
                      stories, isSyncing, generatingTestCases, procVars, pageVars, pureVars,
                      impRuns>>

\* .from('test_cases').select('id').eq('readable_id', ..).eq('project_id', ..)
\* .single(): data when exactly one row matches, its error is not read
ExistingTestCase(project, testId, callOk) ==
  callOk /\ Cardinality({t \in test_cases :
                           t.project_id = project /\ t.readable_id = testId}) = 1

\* .update(testCaseData).eq('readable_id', ..).eq('project_id', ..)
UpdatedCases(project, testId, data) ==
  { IF t.project_id = project /\ t.readable_id = testId
    THEN [t EXCEPT !.title = data.title, !.priority = data.priority,
                   !.status = data.status, !.user_story_id = data.user_story_id]
    ELSE t : t \in test_cases }

\* the lookup by readable_id for the row at hand and, when it finds the test
\* case, nothing more; else the row is queued with its id and the loop goes on
ImportLookup(v) ==
  \E callOk \in BOOLEAN :
    LET m == [imp[v] EXCEPT !.clean = @ /\ callOk]
        row == m.rows[m.i]
        storyId == MatchingStory(m.userStories, row.userStoryTitle)
    IN /\ imp[v].pc = "lookup"
       /\ imp' = [imp EXCEPT ![v] =
            IF ExistingTestCase(SelectedProject(v), row.testId, callOk)
            THEN [m EXCEPT !.pc = "update"]
            ELSE ImportLoop([m EXCEPT !.toInsert =
                                        Append(@, TestCaseData(row, storyId,
                                                               row.testId)),
                                      !.i = @ + 1])]
       /\ UNCHANGED <<storeVars, feedVars, viewVars, procVars, pageVars, pureVars, impRuns,
                      lastImp>>

\* the update of the test case the lookup found, then the loop from the
\* next row on
ImportUpdate(v) ==
  \E callOk \in BOOLEAN :
    LET m == [imp[v] EXCEPT !.clean = @ /\ callOk]
        row == m.rows[m.i]
        storyId == MatchingStory(m.userStories, row.userStoryTitle)
    IN /\ imp[v].pc = "update"
       /\ IF ~callOk
          THEN /\ ImpEnd(v, m, "failed", "Import Failed", test_cases)
               /\ UNCHANGED test_cases
          ELSE /\ test_cases' = UpdatedCases(SelectedProject(v), row.testId,
                                             TestCaseData(row, storyId, row.testId))
               /\ imp' = [imp EXCEPT ![v] =
                    ImportLoop([m EXCEPT !.updatedCount = @ + 1, !.i = @ + 1])]
               /\ UNCHANGED <<toast, lastImp>>
       /\ UNCHANGED <<user_stories, ai_usage_logs, nextStoryId, nextTestCaseId,
                      feedVars, session, currentProject, savedConfigs, stories,
                      isSyncing, generatingTestCases, procVars, pageVars, pureVars, impRuns>>

\* .insert(testCasesToInsert): the rows the call adds
InsertedCases(v, toInsert) ==
  { [TestCaseRow(nextTestCaseId + k - 1, SelectedProject(v),
                 toInsert[k].user_story_id, toInsert[k].title,
                 toInsert[k].priority, toInsert[k].status)
       EXCEPT !.readable_id = IF toInsert[k].readable_id = "" THEN @
                              ELSE toInsert[k].readable_id]
    : k \in DOMAIN toInsert }

\* the 'Missing User Stories' toast and the bulk insert of the queued rows
ImportInsert(v) ==
  \E callOk \in BOOLEAN :
    LET m == [imp[v] EXCEPT !.clean = @ /\ callOk]
    IN /\ imp[v].pc = "insert"
       /\ IF ~callOk
          THEN /\ ImpEnd(v, m, "failed", "Import Failed", test_cases)
               /\ UNCHANGED <<test_cases, nextTestCaseId>>
          ELSE /\ test_cases' = test_cases \cup InsertedCases(v, m.toInsert)
               /\ nextTestCaseId' = nextTestCaseId + Len(m.toInsert)
               /\ imp' = [imp EXCEPT ![v] = [m EXCEPT !.pc = "finish"]]
               /\ toast' = [toast EXCEPT ![v] =
                              IF m.missingStories # {} THEN "Missing User Stories"
                              ELSE @]
               /\ UNCHANGED lastImp
       /\ UNCHANGED <<user_stories, ai_usage_logs, nextStoryId, feedVars, session,
                      currentProject, savedConfigs, stories, isSyncing,
                      generatingTestCases, procVars, pageVars, pureVars, impRuns>>

\* the toast of the import, the reload of the list, the finally block
ImportFinish(v) ==
  LET m == imp[v]
      totalProcessed == Len(m.toInsert) + m.updatedCount
  IN /\ imp[v].pc = "finish"
     /\ ImpEnd(v, m, "done",
               IF totalProcessed > 0 THEN "Import Successful"
               ELSE IF m.missingStories # {} THEN "Missing User Stories"
               ELSE toast[v],
               test_cases)
     /\ UNCHANGED <<storeVars, feedVars, session, currentProject, savedConfigs,
                    stories, isSyncing, generatingTestCases, procVars, pageVars, pureVars,
                    impRuns>>

(***************************************************************************)
(* The pure functions applied to their inputs.                             *)
(***************************************************************************)
ApplyExtract ==
  /\ ~extractOut.done
  /\ extractOut' = [done |-> TRUE, value |-> extractTextFromJiraContent(extractIn)]
  /\ UNCHANGED <<storeVars, feedVars, viewVars, procVars, importVars, pageVars,
                 extractIn, reportIn,
                 reportOut, mapIn, mapOut, promptIn, promptOut>>

NoReport == ReportResponse(0, "", NoStatistics, FALSE)

\* one request served by generate-test-report
ApplyReport ==
  \E authOk \in BOOLEAN, llmOk \in BOOLEAN, logOk \in BOOLEAN :
    LET response == ServeReport(reportIn, authOk, llmOk, logOk)
    IN /\ ~reportOut.done
       /\ ~authOk => llmOk /\ logOk
       /\ ~llmOk => logOk
       /\ reportOut' = [done |-> TRUE, served |-> authOk /\ llmOk,
                        response |-> response]
       /\ ai_usage_logs' =
            IF response.logged
            THEN Append(ai_usage_logs, UsageRecord("test_report_generation", TRUE))
            ELSE ai_usage_logs
       /\ UNCHANGED <<user_stories, test_cases, nextStoryId, nextTestCaseId, feedVars,
                      viewVars, procVars, importVars, pageVars,
                 extractIn, extractOut, reportIn,
                      mapIn, mapOut, promptIn, promptOut>>

\* the work items the mapping is applied to: priority 0 stands for a missing
\* one, an empty title, description, criteria or state for a missing one
WorkItems ==
  [ title : {"", "a"}, description : {<<>>, <<"z">>},
    acceptanceCriteria : {"", "ac"}, priority : 0..MaxPriority,
    state : {"", "Active", "New"} ]

NoMapped == [done |-> FALSE, story |-> AzureStory(WorkItem("a"))]

\* one work item mapped by azure-devops-integration
ApplyAzure ==
  /\ ~mapOut.done
  /\ mapOut' = [done |-> TRUE, story |-> AzureStory(mapIn)]
  /\ UNCHANGED <<storeVars, feedVars, viewVars, procVars, importVars, pageVars,
                 extractIn, extractOut,
                 reportIn, reportOut, mapIn, promptIn, promptOut>>

\* maxResults of the search the issue-tracker function requests
JiraMaxResults == 50

\* a provider's tracker holding some number of items the function's query
\* selects
PageInputs == [provider : {"jira", "azure"}, items : 0..MaxTrackerItems]

\* the issues the tracker's search returns for maxResults=50
JiraIssues(items) == IF items > JiraMaxResults THEN JiraMaxResults ELSE items

\* the work items the WIQL query, which names no limit, returns ids of, all
\* of them joined into the ids of the detail request
AzureWorkItems(items) == items

\* the stories a provider's function returns to the reconciliation loop,
\* one per item it got
FetchedStories(page) ==
  IF page.provider = "jira" THEN JiraIssues(page.items)
  ELSE AzureWorkItems(page.items)

NoPage == [provider |-> "jira", items |-> 0]

NoFetched == [done |-> FALSE, stories |-> 0]

\* one fetch of a provider's function
ApplyPage ==
  /\ ~pageOut.done
  /\ pageOut' = [done |-> TRUE, stories |-> FetchedStories(pageIn)]
  /\ UNCHANGED <<storeVars, feedVars, viewVars, procVars, importVars, pureVars,
                 pageIn>>

\* no file chosen in the dialog (uploadedImage === null)
NoFile == [name |-> "", type |-> ""]

\* what the dialog's file input can hold
ImageFiles ==
  {NoFile} \cup {[name |-> "m", type |-> t] :
                   t \in {"image/png", "image/jpeg", "image/gif"}}

\* FileReader.readAsDataURL: a string "data:<type>;base64,<payload>"
ReadAsDataURL(file) == JsStr(<<"data:", file.type, ";base64,", file.name>>)

\* the dialog's entries the generation is invoked with
DialogEntries ==
  [ imageFile : ImageFiles,
    customPrompt : {<<>>, <<" ">>, <<"x">>, <<" ", "x">>},
    description : {"", "d"},
    priority : {"", "high"} ]

\* requestBody of generateTestCases for the dialog's entries:
\* customPrompt || undefined and uploadedImage || undefined, then imageData
\* set to the data URL only when a file was given
RequestBody(entries) ==
  [ story |-> [title |-> "a", description |-> entries.description,
               priority |-> entries.priority],
    customPrompt |-> entries.customPrompt,
    imageData |-> IF entries.imageFile = NoFile THEN JsNull
                  ELSE ReadAsDataURL(entries.imageFile),
    imageType |-> entries.imageFile.type ]

\* imageData && Array.isArray(imageData) && imageData.length > 0
HasImages(imageData) ==
  Truthy(imageData) /\ imageData.isArr /\ Len(imageData.content) > 0

\* the blocks of the prompt generate-test-cases builds, in order
PromptBlocks(body) ==
  <<"story">>
  \o (IF HasImages(body.imageData) THEN <<"UPLOADED IMAGES CONTEXT">> ELSE <<>>)
  \o <<"categories 1-5">>
  \o (IF HasImages(body.imageData) THEN <<"categories 6-8">> ELSE <<>>)
  \o (IF Trim(body.customPrompt) # <<>>
      THEN <<"ADDITIONAL CUSTOM REQUIREMENTS">> ELSE <<>>)
  \o <<"format">>

\* the content of the user message: the prompt alone, or a text part
\* followed by one image_url part per image
UserContent(body) ==
  IF HasImages(body.imageData)
  THEN <<"text">> \o [i \in 1..Len(body.imageData.content) |-> "image_url"]
  ELSE <<"prompt">>

\* what generate-test-cases sends to the completion endpoint for a body
CompletionRequest(body) ==
  [ prompt |-> PromptBlocks(body),
    description |-> OrElse(body.story.description, "No description provided"),
    priority |-> OrElse(body.story.priority, "Medium"),
    content |-> UserContent(body) ]

\* a dialog left as it opens
NoEntries ==
  [imageFile |-> NoFile, customPrompt |-> <<>>, description |-> "", priority |-> ""]

NoPrompt == [done |-> FALSE, request |-> CompletionRequest(RequestBody(NoEntries))]

\* one generation requested from the dialog, up to the completion request
ApplyPrompt ==
  /\ ~promptOut.done
  /\ promptOut' = [done |-> TRUE,
                   request |-> CompletionRequest(RequestBody(promptIn))]
  /\ UNCHANGED <<storeVars, feedVars, viewVars, procVars, importVars, pageVars,
                 extractIn, extractOut,
                 reportIn, reportOut, mapIn, mapOut, promptIn>>

(***************************************************************************)
(* Initial states and specifications.                                      *)
(***************************************************************************)
Configs(jira, azure, openai) ==
  [jira : jira, azure : azure, openai : openai]

OpenAIFields == {"endpoint", "apiKey", "deploymentId"}

NoConfig == [jira |-> "off", azure |-> "off", openai |-> {}]

NoRequest ==
  [testCases |-> <<>>, hasApiKey |-> FALSE, hasProjectName |-> FALSE,
   reportType |-> ""]

\* the state after the views have mounted on an empty store: feeds and
\* configurations drawn from the given sets
InitWith(jiraFeeds, azureFeeds, configs) ==
  /\ user_stories = {}
  /\ test_cases = {}
  /\ ai_usage_logs = <<>>
  /\ nextStoryId = 1
  /\ nextTestCaseId = 1
  /\ jiraFeed \in jiraFeeds
  /\ azureFeed \in azureFeeds
  /\ session \in [Views -> BOOLEAN]
  /\ \A v \in Views \ SeqViews : session[v]
  /\ currentProject = [v \in Views |-> IF session[v] THEN FirstProject(v) ELSE NULL]
  /\ savedConfigs \in [Views -> configs]
  /\ \A v \in Views \ SeqViews : savedConfigs[v] = savedConfigs["v1"]
  /\ stories = [v \in Views |-> <<>>]
  /\ isSyncing = [v \in Views |-> FALSE]
  /\ generatingTestCases = [v \in Views |-> NULL]
  /\ toast = [v \in Views |-> "none"]
  /\ sync = [v \in Views |-> SyncIdle]
  /\ gen = [v \in Views |-> GenIdle]
  /\ syncRuns = [v \in Views |-> 0]
  /\ genRuns = [v \in Views |-> 0]
  /\ addRuns = [v \in Views |-> 0]
  /\ lastSync = [v \in Views |-> <<>>]
  /\ lastGen = [v \in Views |-> <<>>]
  /\ del = [v \in Views |-> DelIdle]
  /\ lastDel = [v \in Views |-> <<>>]
  /\ imp = [v \in Views |-> ImpIdle]
  /\ impRuns = [v \in Views |-> 0]
  /\ lastImp = [v \in Views |-> <<>>]

InitPure ==
  /\ extractIn = JsNull
  /\ extractOut = [done |-> FALSE, value |-> <<>>]
  /\ reportIn = NoRequest
  /\ reportOut = [done |-> FALSE, served |-> FALSE, response |-> NoReport]
  /\ mapIn = WorkItem("a")
  /\ mapOut = NoMapped
  /\ promptIn = NoEntries
  /\ promptOut = NoPrompt
  /\ pageIn = NoPage
  /\ pageOut = NoFetched

\* generation: manual stories and test-case generation, one handler at a time
InitGen ==
  /\ InitWith({<<>>}, {<<>>}, Configs({"off"}, {"off"}, SUBSET OpenAIFields))
  /\ InitPure

NextGen ==
  \E v \in SeqViews :
    \/ Idle(v) /\ handleAddStory(v)
    \/ Idle(v) /\ generateTestCases(v)
    \/ Idle(v) /\ deleteUserStory(v)
    \/ DelCases(v)
    \/ DelStory(v)
    \/ GenFetch(v)
    \/ GenDelete(v)
    \/ GenInsert(v)
    \/ GenUpdate(v)

SpecGen == InitGen /\ [][NextGen]_vars

\* synchronization: manual stories and synchronization runs, one handler at
\* a time
InitSync ==
  /\ InitWith(JiraFeeds, AzureFeeds,
              Configs({"on", "off"}, {"on", "off"}, {OpenAIFields}))
  /\ InitPure

NextSync ==
  \E v \in SeqViews :
    \/ Idle(v) /\ handleAddStory(v)
    \/ Idle(v) /\ syncFromIntegrations(v)
    \/ SyncFetch(v, "jira")
    \/ SyncFetch(v, "azure")
    \/ SyncLookup(v)
    \/ SyncWrite(v)
    \/ SyncFinish(v)

SpecSync == InitSync /\ [][NextSync]_vars

\* one view whose controls are operated while earlier handlers are still
\* awaiting their calls
InitView ==
  /\ InitWith({<<>>}, AzureFeeds, Configs({"off"}, {"on"}, {OpenAIFields}))
  /\ \A v \in Views : session[v]
  /\ InitPure

NextView ==
  \E v \in SeqViews :
    \/ syncFromIntegrations(v)
    \/ SyncFetch(v, "jira")
    \/ SyncFetch(v, "azure")
    \/ SyncLookup(v)
    \/ SyncWrite(v)
    \/ SyncFinish(v)
    \/ generateTestCases(v)
    \/ GenFetch(v)
    \/ GenDelete(v)
    \/ GenInsert(v)
    \/ GenUpdate(v)

SpecView == InitView /\ [][NextView]_vars

\* the same view when every awaited call returns or fails: a handler that
\* awaits a call takes its next step; nothing obliges the user to start one
SpecViewFair ==
  /\ InitView
  /\ [][NextView]_vars
  /\ \A v \in SeqViews :
       /\ WF_vars(SyncFetch(v, "jira") \/ SyncFetch(v, "azure") \/ SyncLookup(v)
                    \/ SyncWrite(v) \/ SyncFinish(v))
       /\ WF_vars(GenFetch(v) \/ GenDelete(v) \/ GenInsert(v) \/ GenUpdate(v))

\* two browser sessions synchronizing one project from one feed, their
\* awaited calls interleaved, and a user of another project adding stories
InitRace ==
  /\ InitWith({<<>>}, AzureFeeds, Configs({"off"}, {"on"}, {OpenAIFields}))
  /\ \A v \in Views : session[v]
  /\ InitPure

NextRace ==
  \/ \E v \in RaceViews :
       \/ syncFromIntegrations(v)
       \/ SyncFetch(v, "jira")
       \/ SyncFetch(v, "azure")
       \/ SyncLookup(v)
       \/ SyncWrite(v)
       \/ SyncFinish(v)

SpecRace == InitRace /\ [][NextRace]_vars

\* one view synchronizing its project while its user and a user of another
\* project add stories of the same titles
InitFrame ==
  /\ InitWith({<<BareIssue("b"), Issue("a")>>}, AzureFeeds,
              Configs({"on"}, {"off"}, {OpenAIFields}))
  /\ \A v \in Views : session[v]
  /\ InitPure

NextFrame ==
  \/ \E v \in SeqViews :
       \/ Idle(v) /\ handleAddStory(v)
       \/ Idle(v) /\ syncFromIntegrations(v)
       \/ SyncFetch(v, "jira")
       \/ SyncFetch(v, "azure")
       \/ SyncLookup(v)
       \/ SyncWrite(v)
       \/ SyncFinish(v)
  \/ handleAddStory("v2")

SpecFrame == InitFrame /\ [][NextFrame]_vars

\* two browser sessions on one project, each generating test cases for the
\* story it has added, the awaited calls of their generations interleaved.
\* The initial state is the one in which each session has added its story,
\* generated the test case T1 for it and then submitted an empty form.
PairStory(v) == IF v = "v1" THEN 1 ELSE 2

PairStoryRow(v) ==
  StoryRow(PairStory(v), FirstProject(v), "a", FormDescription, "",
           FormPriority, "completed")

PairCaseRow(v) ==
  TestCaseRow(PairStory(v), FirstProject(v), PairStory(v), T1.title,
              ToLowerCase(T1.priority), GeneratedStatus)

InitPair ==
  /\ user_stories = {PairStoryRow(v) : v \in RaceViews}
  /\ test_cases = {PairCaseRow(v) : v \in RaceViews}
  /\ ai_usage_logs = <<UsageRecord("test_case_generation", TRUE),
                       UsageRecord("test_case_generation", TRUE)>>
  /\ nextStoryId = 3
  /\ nextTestCaseId = 3
  /\ jiraFeed = <<>>
  /\ azureFeed = <<>>
  /\ session = [v \in Views |-> TRUE]
  /\ currentProject = [v \in Views |-> FirstProject(v)]
  /\ savedConfigs = [v \in Views |->
                       [jira |-> "off", azure |-> "off", openai |-> OpenAIFields]]
  /\ stories = [v \in Views |-> IF v \in RaceViews
                                 THEN <<LocalStory(PairStoryRow(v), 1)>>
                                 ELSE <<>>]
  /\ isSyncing = [v \in Views |-> FALSE]
  /\ generatingTestCases = [v \in Views |-> NULL]
  /\ toast = [v \in Views |-> IF v \in RaceViews
                               THEN "Error: fill in title and description"
                               ELSE "none"]
  /\ sync = [v \in Views |-> SyncIdle]
  /\ gen = [v \in Views |-> GenIdle]
  /\ syncRuns = [v \in Views |-> 0]
  /\ genRuns = [v \in Views |-> IF v \in RaceViews THEN 1 ELSE 0]
  /\ addRuns = [v \in Views |-> IF v \in RaceViews THEN 1 ELSE 0]
  /\ lastSync = [v \in Views |-> <<>>]
  /\ lastGen = [v \in Views |-> <<>>]
  /\ del = [v \in Views |-> DelIdle]
  /\ lastDel = [v \in Views |-> <<>>]
  /\ imp = [v \in Views |-> ImpIdle]
  /\ impRuns = [v \in Views |-> 0]
  /\ lastImp = [v \in Views |-> <<>>]
  /\ InitPure

NextPair ==
  \E v \in RaceViews :
    \/ generateTestCases(v)
    \/ GenFetch(v)
    \/ GenDelete(v)
    \/ GenInsert(v)
    \/ GenUpdate(v)

SpecPair == InitPair /\ [][NextPair]_vars

\* a user of two projects whose view lists the stories of both, generating
\* and deleting with the awaited calls of the two handlers interleaved. The
\* initial state is the one in which the user has added a story to the first
\* project, a user of the second project has added one to the second, and
\* the view has mounted again.
MemberViews == {"v3"}

MemberStoryRow(v) ==
  StoryRow(IF v = "v3" THEN 1 ELSE 2, FirstProject(v), "a", FormDescription,
           "", FormPriority, "draft")

InitMember ==
  /\ user_stories = {MemberStoryRow(v) : v \in {"v2", "v3"}}
  /\ test_cases = {}
  /\ ai_usage_logs = <<>>
  /\ nextStoryId = 3
  /\ nextTestCaseId = 1
  /\ jiraFeed = <<>>
  /\ azureFeed = <<>>
  /\ session = [v \in Views |-> TRUE]
  /\ currentProject = [v \in Views |-> FirstProject(v)]
  /\ savedConfigs = [v \in Views |->
                       [jira |-> "off", azure |-> "off", openai |-> OpenAIFields]]
  /\ stories = [v \in Views |->
                  IF v = "v2" THEN <<LocalStory(MemberStoryRow(v), 0)>>
                  ELSE IF v = "v3" THEN LoadedStories(v)
                  ELSE <<>>]
  /\ isSyncing = [v \in Views |-> FALSE]
  /\ generatingTestCases = [v \in Views |-> NULL]
  /\ toast = [v \in Views |-> IF v = "v1" THEN "none" ELSE "Success"]
  /\ sync = [v \in Views |-> SyncIdle]
  /\ gen = [v \in Views |-> GenIdle]
  /\ syncRuns = [v \in Views |-> 0]
  /\ genRuns = [v \in Views |-> 0]
  /\ addRuns = [v \in Views |-> IF v = "v1" THEN 0 ELSE 1]
  /\ lastSync = [v \in Views |-> <<>>]
  /\ lastGen = [v \in Views |-> <<>>]
  /\ del = [v \in Views |-> DelIdle]
  /\ lastDel = [v \in Views |-> <<>>]
  /\ imp = [v \in Views |-> ImpIdle]
  /\ impRuns = [v \in Views |-> 0]
  /\ lastImp = [v \in Views |-> <<>>]
  /\ InitPure

NextMember ==
  \/ \E v \in MemberViews :
       \/ Idle(v) /\ loadStoriesFromDatabase(v)
       \/ generateTestCases(v)
       \/ GenFetch(v)
       \/ GenDelete(v)
       \/ GenInsert(v)
       \/ GenUpdate(v)
       \/ deleteUserStory(v)
       \/ DelCases(v)
       \/ DelStory(v)

SpecMember == InitMember /\ [][NextMember]_vars

\* the rich-text unwrapping applied to every input
InitExtract ==
  /\ InitWith({<<>>}, {<<>>}, {NoConfig})
  /\ \A v \in Views : session[v]
  /\ extractIn \in ExtractInputs
  /\ extractOut = [done |-> FALSE, value |-> <<>>]
  /\ reportIn = NoRequest
  /\ reportOut = [done |-> FALSE, served |-> FALSE, response |-> NoReport]
  /\ mapIn = WorkItem("a")
  /\ mapOut = NoMapped
  /\ promptIn = NoEntries
  /\ promptOut = NoPrompt
  /\ pageIn = NoPage
  /\ pageOut = NoFetched

SpecExtract == InitExtract /\ [][ApplyExtract]_vars

\* the report function applied to every request
InitReport ==
  /\ InitWith({<<>>}, {<<>>}, {NoConfig})
  /\ \A v \in Views : session[v]
  /\ extractIn = JsNull
  /\ extractOut = [done |-> FALSE, value |-> <<>>]
  /\ reportIn \in ReportRequests
  /\ reportOut = [done |-> FALSE, served |-> FALSE, response |-> NoReport]
  /\ mapIn = WorkItem("a")
  /\ mapOut = NoMapped
  /\ promptIn = NoEntries
  /\ promptOut = NoPrompt
  /\ pageIn = NoPage
  /\ pageOut = NoFetched

SpecReport == InitReport /\ [][ApplyReport]_vars

\* the work-item mapping applied to every work item
InitAzure ==
  /\ InitWith({<<>>}, {<<>>}, {NoConfig})
  /\ \A v \in Views : session[v]
  /\ extractIn = JsNull
  /\ extractOut = [done |-> FALSE, value |-> <<>>]
  /\ reportIn = NoRequest
  /\ reportOut = [done |-> FALSE, served |-> FALSE, response |-> NoReport]
  /\ mapIn \in WorkItems
  /\ mapOut = NoMapped
  /\ promptIn = NoEntries
  /\ promptOut = NoPrompt
  /\ pageIn = NoPage
  /\ pageOut = NoFetched

SpecAzure == InitAzure /\ [][ApplyAzure]_vars

\* the prompt: the entries of a generation dialog, applied once
InitPrompt ==
  /\ InitWith({<<>>}, {<<>>}, {NoConfig})
  /\ \A v \in Views : session[v]
  /\ extractIn = JsNull
  /\ extractOut = [done |-> FALSE, value |-> <<>>]
  /\ reportIn = NoRequest
  /\ reportOut = [done |-> FALSE, served |-> FALSE, response |-> NoReport]
  /\ mapIn = WorkItem("a")
  /\ mapOut = NoMapped
  /\ promptIn \in DialogEntries
  /\ promptOut = NoPrompt
  /\ pageIn = NoPage
  /\ pageOut = NoFetched

SpecPrompt == InitPrompt /\ [][ApplyPrompt]_vars

\* the providers' fetches: a tracker of some size, fetched once
InitPage ==
  /\ InitWith({<<>>}, {<<>>}, {NoConfig})
  /\ \A v \in Views : session[v]
  /\ extractIn = JsNull
  /\ extractOut = [done |-> FALSE, value |-> <<>>]
  /\ reportIn = NoRequest
  /\ reportOut = [done |-> FALSE, served |-> FALSE, response |-> NoReport]
  /\ mapIn = WorkItem("a")
  /\ mapOut = NoMapped
  /\ promptIn = NoEntries
  /\ promptOut = NoPrompt
  /\ pageIn \in PageInputs
  /\ pageOut = NoFetched

SpecPage == InitPage /\ [][ApplyPage]_vars

\* Excel import: manual stories and imports of sheets, one at a time
InitImport ==
  /\ InitWith({<<>>}, {<<>>}, {NoConfig})
  /\ \A v \in Views : session[v]
  /\ InitPure

NextImport ==
  \E v \in SeqViews :
    \/ Quiet /\ handleAddStory(v)
    \/ handleFileUpload(v)
    \/ ImportRead(v)
    \/ ImportStories(v)
    \/ ImportLookup(v)
    \/ ImportUpdate(v)
    \/ ImportInsert(v)
    \/ ImportFinish(v)

SpecImport == InitImport /\ [][NextImport]_vars

(***************************************************************************)
(* Properties of test-case generation, checked under SpecGen.              *)
(***************************************************************************)
\* the summary of the invocation that ended last in view v
LastGen(v) == lastGen[v][1]

GenEnded(v) == lastGen[v] # <<>> /\ gen[v].pc = "idle"

\* C1: regeneration is a full replace. After generateTestCases ends with
\* success for a story, the test cases stored for that (project, story) pair
\* are exactly the rows this invocation inserted: no row stored for the pair
\* before the invocation is left.
C1_RegenerationReplaces ==
  \A v \in Views :
    GenEnded(v) /\ LastGen(v).outcome = "success"
      => CasesOf(LastGen(v).project, LastGen(v).storyId) = LastGen(v).insertedIds

\* C4: every row a generation has stored carries the status 'not-run'.
C4_GeneratedNotRun ==
  \A t \in test_cases : t.status = "not-run"

\* C5: when the completion's text is no JSON array, the edge function
\* answers with the parse error and the raw text, and the client stops after
\* the fetch: it deletes none of the story's test cases, inserts none, and
\* the story's stored test cases and status are what they were.
C5_UnparsableCompletion ==
  \A v \in Views :
    GenEnded(v) /\ LastGen(v).completion = "ok" /\ LastGen(v).json # "array"
      => /\ LastGen(v).error = "Failed to parse generated test cases"
         /\ LastGen(v).rawContent = LastGen(v).json
         /\ LastGen(v).stage = "fetch"
         /\ ~LastGen(v).deleted
         /\ LastGen(v).insertCall = "none"
         /\ LastGen(v).insertedIds = {}
         /\ CasesOf(LastGen(v).project, LastGen(v).storyId) = LastGen(v).startCases
         /\ StatusOf(LastGen(v).storyId) = LastGen(v).startStatus

\* C5's case: an unparsable completion for a story that has stored test cases
C5_Witness ==
  \E v \in Views :
    /\ GenEnded(v)
    /\ LastGen(v).completion = "ok"
    /\ LastGen(v).json # "array"
    /\ LastGen(v).startCases # {}
    /\ LastGen(v).startStatus = "completed"

\* C6: with a saved configuration that lacks one of endpoint, API key and
\* deployment id, a generation click ends at once with the error toast: the
\* invocation never reaches the fetch, so no request is sent, and test
\* cases, stories and the usage log are unchanged.
C6_MissingConfigRejected ==
  [][\A v \in Views :
       ( /\ genRuns'[v] # genRuns[v]
         /\ session[v]
         /\ savedConfigs[v].openai # OpenAIFields )
       => /\ toast'[v] = "Azure OpenAI Not Configured"
          /\ gen'[v].pc = "idle"
          /\ generatingTestCases'[v] = NULL
          /\ ~lastGen'[v][1].requested
          /\ storeVars' = storeVars]_vars

\* C6's case: a rejected click on a stored story, the configuration lacking
\* only the deployment id
C6_Witness ==
  \E v \in Views :
    /\ GenEnded(v)
    /\ LastGen(v).outcome = "rejected"
    /\ savedConfigs[v].openai = {"endpoint", "apiKey"}
    /\ toast[v] = "Azure OpenAI Not Configured"
    /\ \E r \in user_stories : r.id = LastGen(v).storyId

\* C7: when the bulk insert fails after the delete took effect, the story is
\* left with no test cases (the deleted rows are not restored), its status is
\* not set by the invocation, and the failure toast is shown.
C7_FailedInsertAfterDelete ==
  \A v \in Views :
    GenEnded(v) /\ LastGen(v).deleted /\ LastGen(v).insertCall = "failed"
      => /\ CasesOf(LastGen(v).project, LastGen(v).storyId) = {}
         /\ StatusOf(LastGen(v).storyId) = LastGen(v).startStatus
         /\ LastGen(v).stage = "insert"
         /\ LastGen(v).toast = "Generation Failed"

\* C7's case: the failed insert lost test cases of a story not yet completed
C7_Witness ==
  \E v \in Views :
    /\ GenEnded(v)
    /\ LastGen(v).deleted
    /\ LastGen(v).insertCall = "failed"
    /\ LastGen(v).startCases # {}
    /\ LastGen(v).startStatus # "completed"

(***************************************************************************)
(* Properties of synchronization, checked under SpecSync.                  *)
(***************************************************************************)
\* the summary of the run that finished last in view v
LastSync(v) == lastSync[v][Len(lastSync[v])]

SyncEnded(v) == lastSync[v] # <<>> /\ sync[v].pc = "idle"

\* the rows of a project whose title equals the given one when letter case
\* is ignored
SameTitleIgnoringCase(project, title) ==
  {r \in user_stories :
     r.project_id = project /\ ToLowerCase(r.title) = ToLowerCase(title)}

\* C2: a fetched story is treated as an existing story of the project (its
\* row is updated and none is inserted) exactly when a row of the project
\* has the same title up to letter case; a title with a trailing blank is
\* another title.  Stated of the runs whose calls have all succeeded so far.
C2_MatchIgnoresCase ==
  \A v \in Views :
    sync[v].pc = "write" /\ sync[v].clean
      => ( sync[v].existingStory # NULL
           <=> SameTitleIgnoringCase(currentProject[v],
                                     sync[v].items[sync[v].i].title) # {} )

\* C3: two runs in succession against the unchanged feed, every call of both
\* succeeding and no story created in between: the second run inserts no row
\* and leaves the project with as many stories as the first left.
C3_SecondRunInsertsNothing ==
  \A v \in Views :
    ( /\ Len(lastSync[v]) = 2
      /\ lastSync[v][1].clean
      /\ lastSync[v][2].clean
      /\ lastSync[v][2].startIds = lastSync[v][1].endIds )
    => /\ lastSync[v][2].inserted = 0
       /\ Cardinality(lastSync[v][2].endIds) = Cardinality(lastSync[v][1].endIds)

\* C8: a run in which a provider's call failed still ends with the ordinary
\* toast and clears isSyncing; the other enabled provider was called, and
\* when its call succeeded every story it returned was reconciled; the rows
\* inserted during the run are in the project at its end; and the step in
\* which the call fails changes no stored row and goes on to the next
\* provider or to the end of the run.
C8_FailedProviderSkipped ==
  /\ [](\A v \in Views :
          SyncEnded(v) /\ "failed" \in {LastSync(v).jira, LastSync(v).azure}
          => /\ LastSync(v).toast # "Sync Failed"
             /\ ~isSyncing[v]
             /\ ProviderOn(savedConfigs[v], "azure")
                  => LastSync(v).azure \in {"fetched", "failed"}
             /\ LastSync(v).jira = "failed" /\ LastSync(v).azure = "fetched"
                  => LastSync(v).handled = Len(azureFeed)
             /\ LastSync(v).azure = "failed" /\ LastSync(v).jira = "fetched"
                  => LastSync(v).handled = Len(jiraFeed)
             /\ Cardinality(LastSync(v).endIds)
                  = Cardinality(LastSync(v).startIds) + LastSync(v).inserted)
  /\ [][\A v \in Views :
          \A provider \in {"jira", "azure"} :
            sync[v][provider] = "none" /\ sync'[v][provider] = "failed"
            => /\ storeVars' = storeVars
               /\ sync'[v].pc = AfterProvider(provider)
               /\ sync'[v].syncedCount = sync[v].syncedCount]_vars

\* C8's case: the first provider's call failed and the second provider's
\* story was inserted in the same run
C8_Witness ==
  \E v \in Views :
    /\ SyncEnded(v)
    /\ LastSync(v).jira = "failed"
    /\ LastSync(v).azure = "fetched"
    /\ LastSync(v).inserted = 1
    /\ LastSync(v).toast = "Sync Complete"

(***************************************************************************)
(* Properties of the pure functions, checked under SpecReport and          *)
(* SpecExtract.                                                            *)
(***************************************************************************)
\* C9: a request that passes the token check and names a key, a project and
\* a served report type, and whose completion call succeeds, is answered
\* with statistics whose pass rate is a tenth of a percent nearest to
\* passed / total * 100, and 0 when the list of test cases is empty.
C9_PassRate ==
  ( /\ reportOut.done
    /\ reportOut.served
    /\ reportIn.hasApiKey
    /\ reportIn.hasProjectName
    /\ reportIn.reportType \in ServerReportTypes \cup {""} )
  => LET total == Len(reportIn.testCases)
         passed == CountStatus(reportIn.testCases, "passed")
         rate == reportOut.response.statistics.passRate
         off == total * rate - 1000 * passed
     IN /\ reportOut.response.status = 200
        /\ reportOut.response.error = ""
        /\ IF total = 0 THEN rate = 0
           ELSE 2 * off <= total /\ -2 * off <= total

RECURSIVE TextLeaves(_)
\* the texts of the text-leaf nodes below the given nodes, in document order
TextLeaves(nodes) ==
  IF nodes = <<>> THEN <<>>
  ELSE LET node == Head(nodes)
       IN (IF node.type = "text" THEN <<node.text>>
           ELSE IF node.isArr THEN TextLeaves(node.content) ELSE <<>>)
          \o TextLeaves(Tail(nodes))

\* C10: for a document the result is its leaf texts joined by single blanks
\* and trimmed (when that leaves no character, the placeholder is as good);
\* for null, the empty string, a number, an object without a content array
\* and a document without text leaves it is the placeholder.
C10_ExtractedText ==
  extractOut.done
  => LET isDocument == extractIn.k = "obj" /\ extractIn.isArr
         leaves == IF isDocument THEN TextLeaves(extractIn.content) ELSE <<>>
         joined == Trim(Join(leaves, <<" ">>))
     IN IF extractIn.k = "str" /\ extractIn.s # <<>> THEN TRUE
        ELSE IF leaves = <<>> THEN extractOut.value = Placeholder
        ELSE IF joined = <<>> THEN extractOut.value \in {joined, Placeholder}
        ELSE extractOut.value = joined

(***************************************************************************)
(* Properties of the work-item mapping, checked under SpecAzure.           *)
(***************************************************************************)
\* C11: the mapped story's priority is 'high', 'medium', 'low' for a work
\* item of priority 1, 2, 3, and 'medium' for every other priority and for a
\* missing one.
C11_PriorityLabels ==
  mapOut.done
  => mapOut.story.priority =
       CASE mapIn.priority = 1 -> "high"
         [] mapIn.priority = 2 -> "medium"
         [] mapIn.priority = 3 -> "low"
         [] OTHER -> "medium"

\* C11's case: a work item of priority 3 has been mapped
C11_Witness ==
  mapOut.done /\ mapIn.priority = 3 /\ mapOut.story.priority = "low"

(***************************************************************************)
(* Properties of story deletion, checked under SpecGen.                    *)
(***************************************************************************)
\* the summary of the deletion that ended last in view v
LastDel(v) == lastDel[v][1]

DelEnded(v) == lastDel[v] # <<>> /\ del[v].pc = "idle"

\* C12: after a deletion that ended with success neither the story's row nor
\* a test case naming the story is stored; after one whose delete of the
\* test cases failed the story's row is still stored and the failure toast
\* was shown; and a step that removes a story's row starts in a state where
\* no test case names that story.
C12_DeleteCascades ==
  /\ [](\A v \in Views :
          DelEnded(v)
          => /\ LastDel(v).outcome = "success"
                  => /\ \A r \in user_stories : r.id # LastDel(v).storyId
                     /\ \A t \in test_cases : t.user_story_id # LastDel(v).storyId
                     /\ \A i \in DOMAIN stories[v] :
                          stories[v][i].id # LastDel(v).storyId
             /\ LastDel(v).casesCall = "failed"
                  => /\ \E r \in user_stories : r.id = LastDel(v).storyId
                     /\ LastDel(v).toast = "Delete Failed")
  /\ [][\A r \in user_stories :
          (\A q \in user_stories' : q.id # r.id)
          => \A t \in test_cases : t.user_story_id # r.id]_vars

\* C12's case: a story that had test cases has been deleted with them
C12_Witness ==
  \E v \in Views :
    /\ DelEnded(v)
    /\ LastDel(v).outcome = "success"
    /\ LastDel(v).hadCases
    /\ user_stories # {}

(***************************************************************************)
(* Properties of the stored stories, checked under SpecSync.               *)
(***************************************************************************)
\* C13: every stored user story has a priority of low, medium or high and a
\* status of draft, ready, in-progress or completed.
C13_StoryFieldsInRange ==
  \A r \in user_stories :
    /\ r.priority \in {"low", "medium", "high"}
    /\ r.status \in {"draft", "ready", "in-progress", "completed"}

\* C15: an invocation that reached the edge function and did not end in
\* saved test cases ends with a toast that reports the failure.
C15_FailureReported ==
  \A v \in Views :
    GenEnded(v) /\ LastGen(v).outcome \in {"failed", "silent"}
      => LastGen(v).toast = "Generation Failed"

\* C19: the usage log only grows at its end, and the step in which the
\* edge function obtained a completion text adds exactly one record, whose
\* success flag is true exactly when the text parsed into test cases; in
\* particular no record with success = true is added for unparseable text.
C19_OneRecordPerCompletion ==
  [][/\ Len(ai_usage_logs') >= Len(ai_usage_logs)
     /\ SubSeq(ai_usage_logs', 1, Len(ai_usage_logs)) = ai_usage_logs
     /\ \A v \in Views :
          gen[v].pc = "fetch" /\ gen'[v].pc # "fetch"
          => LET after == IF gen'[v].pc = "idle"
                          THEN lastGen'[v][Len(lastGen'[v])]
                          ELSE gen'[v]
                 added == SubSeq(ai_usage_logs', Len(ai_usage_logs) + 1,
                                 Len(ai_usage_logs'))
             IN after.requested /\ after.completion = "ok"
                => /\ Len(added) = 1
                   /\ added[1].success <=> after.json = "array"]_vars

\* C20: the completion request has the image-context block and the image
\* categories in its prompt and carries image references in its user
\* message exactly when a file was attached in the dialog.
C20_ImagesIffAttached ==
  promptOut.done
  => LET attached == promptIn.imageFile # NoFile
         request == promptOut.request
         inRequest(part, parts) == \E i \in DOMAIN parts : parts[i] = part
     IN /\ attached <=> inRequest("UPLOADED IMAGES CONTEXT", request.prompt)
        /\ attached <=> inRequest("categories 6-8", request.prompt)
        /\ attached <=> inRequest("image_url", request.content)

(***************************************************************************)
(* Properties of the controls, checked under SpecView.                     *)
(***************************************************************************)
\* C16: while a synchronization of a view is outstanding isSyncing is true,
\* and while a generation is outstanding generatingTestCases is non-null;
\* a synchronization starts only when none is outstanding in the view, and
\* so does a generation.
C16_OneChainPerControl ==
  /\ [](\A v \in Views :
          /\ sync[v].pc # "idle" => isSyncing[v]
          /\ gen[v].pc # "idle" => generatingTestCases[v] # NULL)
  /\ [][\A v \in Views :
          /\ syncRuns'[v] # syncRuns[v] => sync[v].pc = "idle"
          /\ genRuns'[v] # genRuns[v] => gen[v].pc = "idle"]_vars

\* C16's case: a synchronization and a generation are outstanding in one
\* view, which has started fewer generations than it may
C16_Witness ==
  \E v \in Views :
    /\ sync[v].pc = "lookup"
    /\ gen[v].pc = "insert"
    /\ genRuns[v] < MaxGens

(***************************************************************************)
(* Properties of the update of a matched story, checked under SpecFrame.   *)
(***************************************************************************)
\* C14: the write of a run whose lookup matched a row leaves the table with
\* the same number of rows, leaves every row of another id as it was, in the
\* run's project and in every other project whatever its title, and leaves
\* the matched row its id, title and project; when the call succeeds the
\* matched row's description, acceptance criteria, priority and status are
\* the fetched story's.
C14_UpdateTouchesMatchedRowOnly ==
  [][\A v \in Views :
       /\ sync[v].pc = "write"
       /\ sync[v].existingStory # NULL
       /\ sync'[v].handled = sync[v].handled + 1
       => /\ Cardinality(user_stories') = Cardinality(user_stories)
          /\ \A r \in user_stories :
               IF r.id # sync[v].existingStory
               THEN r \in user_stories'
               ELSE \E q \in user_stories' :
                      /\ q.id = r.id
                      /\ q.title = r.title
                      /\ q.project_id = r.project_id
                      /\ sync'[v].syncedCount = sync[v].syncedCount + 1
                           => LET story == sync[v].items[sync[v].i]
                                  fields == IF Provider(v) = "jira"
                                            THEN JiraFields(story)
                                            ELSE AzureFields(story)
                              IN /\ q.description = fields.description
                                 /\ q.acceptance_criteria = fields.acceptance_criteria
                                 /\ q.priority = fields.priority
                                 /\ q.status = fields.status]_vars

\* C14's case: a run has matched a row, its update is about to be issued,
\* and another project holds a story of the same title that differs from the
\* fetched story in the fields an update writes
C14_Witness ==
  \E v \in Views :
    /\ sync[v].pc = "write"
    /\ sync[v].existingStory # NULL
    /\ \E r \in user_stories :
         /\ r.project_id # currentProject[v]
         /\ r.title = sync[v].items[sync[v].i].title
         /\ r.status # JiraFields(sync[v].items[sync[v].i]).status
    /\ \E r \in user_stories :
         /\ r.project_id = currentProject[v]
         /\ r.id # sync[v].existingStory

(***************************************************************************)
(* Properties of concurrent synchronizations, checked under SpecRace.      *)
(***************************************************************************)
\* the rows of a project with the given title
SameTitle(project, title) ==
  {r \in user_stories : r.project_id = project /\ r.title = title}

\* C17: nothing between the lookup and the insert re-examines the title: a
\* run whose lookup found no story inserts its row when the insert succeeds,
\* also when another run has inserted a row of that title in the meantime,
\* so that the project is left with one more row of the title.
C17_InsertAfterStaleLookup ==
  [][\A v \in Views :
       /\ sync[v].pc = "write"
       /\ sync[v].existingStory = NULL
       /\ sync'[v].inserted = sync[v].inserted + 1
       => LET title == sync[v].items[sync[v].i].title
              project == currentProject[v]
          IN Cardinality({r \in user_stories' :
                            r.project_id = project /\ r.title = title})
             = Cardinality(SameTitle(project, title)) + 1]_vars

\* C17's case: two runs on one project have each inserted a row, and the
\* project holds two rows of one title
C17_Witness ==
  \E v, w \in Views :
    /\ v # w
    /\ currentProject[v] = currentProject[w]
    /\ sync[v].inserted = 1
    /\ sync[w].inserted = 1
    /\ \E r, q \in user_stories :
         /\ r.id # q.id
         /\ r.project_id = currentProject[v]
         /\ q.project_id = currentProject[v]
         /\ r.title = q.title

(***************************************************************************)
(* Properties of the Excel import, checked under SpecImport.               *)
(***************************************************************************)
\* the summary of the import that ended last in view v
LastImp(v) == lastImp[v][1]

ImpEnded(v) == lastImp[v] # <<>> /\ imp[v].pc = "idle"

\* C18: after an import of a sheet with rows, all calls having succeeded:
\* the project has one more test case for every titled row whose user story
\* title matches a story of the project and whose test_id is empty or not
\* the readable_id of a test case the project had, and no more; for every
\* titled row whose user story title matches and whose test_id is the
\* readable_id of a test case the project had, that test case carries a
\* title the sheet gives for this id.
C18_ImportRows ==
  \A v \in Views :
    ( /\ ImpEnded(v)
      /\ LastImp(v).clean
      /\ LastImp(v).toast \notin {"Invalid File", "Empty File"} )
    => LET l == LastImp(v)
           had == {t \in l.startCases : t.project_id = l.project}
           has == {t \in l.endCases : t.project_id = l.project}
           matches(row) ==
             /\ row.title # ""
             /\ \E s \in l.stories :
                  ToLowerCase(s.title) = ToLowerCase(row.userStoryTitle)
           known(row) ==
             row.testId # "" /\ \E t \in had : t.readable_id = row.testId
           adding == {i \in DOMAIN l.rows :
                        matches(l.rows[i]) /\ ~known(l.rows[i])}
           updating == {i \in DOMAIN l.rows :
                          matches(l.rows[i]) /\ known(l.rows[i])}
       IN /\ Cardinality(has) = Cardinality(had) + Cardinality(adding)
          /\ \A i \in updating :
               \A t \in has :
                 t.readable_id = l.rows[i].testId
                 => \E j \in updating :
                      /\ l.rows[j].testId = t.readable_id
                      /\ t.title = l.rows[j].title

(***************************************************************************)
(* Properties of the providers' fetches, checked under SpecPage.           *)
(***************************************************************************)
\* C21: a provider's function returns at most 50 stories to the
\* reconciliation loop, however many items the tracker holds.
C21_AtMostAPage ==
  pageOut.done => pageOut.stories <= JiraMaxResults

(***************************************************************************)
(* Properties of equal titles within one run, checked under SpecSync.      *)
(***************************************************************************)
\* the stories the run that ended last in view v was handed, in the order
\* of its loops, each with the fields the run writes for it
HandedStories(v) ==
  LET jira == JiraStories(jiraFeed)
      azure == AzureStories(azureFeed)
  IN (IF LastSync(v).jira = "fetched"
      THEN [i \in DOMAIN jira |->
              [title |-> jira[i].title, fields |-> JiraFields(jira[i])]]
      ELSE <<>>)
     \o (IF LastSync(v).azure = "fetched"
         THEN [i \in DOMAIN azure |->
                 [title |-> azure[i].title, fields |-> AzureFields(azure[i])]]
         ELSE <<>>)

\* C22: after a run all of whose calls succeeded, for two handed stories of
\* one title the project holds exactly one row of that title, and the row
\* has the description, acceptance criteria, priority and status of the last
\* handed story of the title.
C22_SecondUpdatesFirst ==
  \A v \in Views :
    SyncEnded(v) /\ LastSync(v).clean
    => LET items == HandedStories(v)
       IN \A i, k \in DOMAIN items :
            i < k /\ items[i].title = items[k].title
                  /\ (\A n \in DOMAIN items : items[n].title = items[k].title => n <= k)
            => LET rows == SameTitle(currentProject[v], items[k].title)
               IN /\ Cardinality(rows) = 1
                  /\ \A r \in rows :
                       /\ r.description = items[k].fields.description
                       /\ r.acceptance_criteria = items[k].fields.acceptance_criteria
                       /\ r.priority = items[k].fields.priority
                       /\ r.status = items[k].fields.status

(***************************************************************************)
(* Properties of the story's status, checked under SpecGen.                *)
(***************************************************************************)
\* C23: a generation that ended with success leaves the story's stored
\* status 'completed'; one that ended otherwise leaves it what it was when
\* the generation started.
C23_StatusAfterGeneration ==
  \A v \in Views :
    GenEnded(v) /\ LastGen(v).stage # "idle"
    => IF LastGen(v).outcome = "success"
       THEN LastGen(v).endStatus = "completed"
       ELSE LastGen(v).endStatus = LastGen(v).startStatus


(***************************************************************************)
(* Properties of two sessions' generations, checked under SpecPair.        *)
(***************************************************************************)
\* the generation of the view that has inserted its rows, or has ended
InsertedGen(v) ==
  IF gen[v].pc = "update" THEN gen[v] ELSE LastGen(v)

HasInserted(v) ==
  \/ gen[v].pc = "update"
  \/ GenEnded(v) /\ LastGen(v).outcome = "success"

C25_CasesNameStoriesOfTheirProject ==
  \A t \in test_cases :
    t.user_story_id # NULL
    => \E r \in user_stories :
         r.id = t.user_story_id /\ r.project_id = t.project_id
(***************************************************************************)
(* Properties of the report's statistics, checked under SpecReport.        *)
(***************************************************************************)
\* C26: for a served report whose test cases carry statuses of the set
\* {not-run, passed, failed, blocked}, the passed, failed, blocked and
\* pending counts of the statistics add up to the total.
C26_CountsAddUp ==
  ( /\ reportOut.done
    /\ reportOut.response.status = 200
    /\ \A i \in DOMAIN reportIn.testCases :
         reportIn.testCases[i] \in {"not-run", "passed", "failed", "blocked"} )
  => LET stats == reportOut.response.statistics
     IN stats.passedTests + stats.failedTests + stats.blockedTests
          + stats.pendingTests = stats.totalTests

\* C29: a request that carries a report type the view's select offers is
\* never answered with the 400 of the report-type validation.
C29_ViewTypesAccepted ==
  reportOut.done /\ reportIn.reportType \in ViewReportTypes
  => ~( /\ reportOut.response.status = 400
        /\ reportOut.response.error = "Report type must be one of" )

(***************************************************************************)
(* Properties of the import's validation, checked under SpecImport.        *)
(***************************************************************************)
\* C28: an import of a sheet in which some row lacks its title or its user
\* story title writes nothing: the stored test cases at its end are those of
\* its start; and when the file was an Excel file that could be read, it
\* ends with the toast 'Import Errors'.
C28_ValidatesBeforeWriting ==
  \A v \in Views :
    ( /\ ImpEnded(v)
      /\ \E i \in DOMAIN LastImp(v).rows :
           \/ LastImp(v).rows[i].title = ""
           \/ LastImp(v).rows[i].userStoryTitle = "" )
    => /\ LastImp(v).endCases = LastImp(v).startCases
       /\ \/ LastImp(v).toast = "Import Errors"
          \/ LastImp(v).toast = "Invalid File"
          \/ LastImp(v).toast = "Import Failed" /\ ~LastImp(v).clean

\* an import of two rows, the first complete and naming a stored story, the
\* second without a title, has ended with 'Import Errors'
C28_Witness ==
  /\ ImpEnded("v1")
  /\ Len(LastImp("v1").rows) = 2
  /\ LastImp("v1").rows[1].title # ""
  /\ MatchingStory(LastImp("v1").stories, LastImp("v1").rows[1].userStoryTitle) # NULL
  /\ LastImp("v1").rows[2].title = ""
  /\ LastImp("v1").toast = "Import Errors"

(***************************************************************************)
(* Properties of the view's local list, checked under SpecMember.          *)
(***************************************************************************)
\* C27: the step that completes a generation changes the view's local list
\* only in the generated story's test-case count and status: the list keeps
\* its length, every other story stays what it was just before the step, and
\* the generated story keeps its other fields.
C27_CompletionKeepsList ==
  [][\A v \in Views :
       gen[v].pc = "update" /\ gen'[v].pc = "idle"
       => /\ Len(stories'[v]) = Len(stories[v])
          /\ \A i \in DOMAIN stories[v] :
               stories'[v][i] =
                 IF stories[v][i].id = gen[v].storyId
                 THEN [stories[v][i] EXCEPT
                         !.testCasesGenerated = stories'[v][i].testCasesGenerated,
                         !.status = stories'[v][i].status]
                 ELSE stories[v][i]]_vars

(***************************************************************************)
(* Termination of the handlers, checked under SpecViewFair.                *)
(***************************************************************************)
\* C30: when every awaited call returns or fails, every started
\* synchronization reaches isSyncing = false and every started generation
\* reaches generatingTestCases = null.
C30_BusyFlagsClear ==
  \A v \in SeqViews :
    /\ isSyncing[v] ~> ~isSyncing[v]
    /\ (generatingTestCases[v] # NULL) ~> (generatingTestCases[v] = NULL)

\* a synchronization of the view has ended, and a generation started after
\* it has ended in the catch block, its insert refused; both flags are clear
C30_Witness ==
  /\ SyncEnded("v1") /\ ~isSyncing["v1"]
  /\ GenEnded("v1") /\ LastGen("v1").outcome = "failed"
  /\ LastGen("v1").insertCall = "failed"
  /\ generatingTestCases["v1"] = NULL
====
